---------------------------- MODULE Spec2Model ----------------------------
(***************************************************************************)
(* A model of the CrUX Intelligence Assistant: the coordinator of          *)
(* src/App.tsx (task queue, session memory, workflow effect), the fetch    *)
(* aggregator of src/services/cruxService.ts and the narrative tools of    *)
(* src/services/geminiService.ts.                                          *)
(*                                                                         *)
(* Strings are sequences of one-character strings, so that trim, split and *)
(* the prefix tests of the code are computed, not assumed.  An optional    *)
(* value (null / undefined in the code) is the empty tuple <<>>, a present *)
(* value v is <<v>>.                                                       *)
(***************************************************************************)
EXTENDS Integers, Sequences, FiniteSets, TLC

VARIABLES
    domain,             \* App.tsx:48  text of the target input field
    cruxKey,            \* App.tsx:74  credential or proxy URL field
    memory,             \* App.tsx:49  session memory
    agentState,         \* App.tsx:50  workflow state
    logs,               \* App.tsx:51  ordered log
    taskQueue,          \* App.tsx:54
    totalTasks,         \* App.tsx:55
    completedData,      \* App.tsx:56  accumulated AnalysisResults
    individualReports,  \* App.tsx:57  accumulated per-domain reports
    isProcessing,       \* App.tsx:58  isProcessingRef.current
    effectPending,      \* a commit changed a dependency of the workflow effect and
                        \* the effect (App.tsx:145) has not run yet
    tasks,              \* the suspended processTask invocations: for each, the
                        \* await it is at and the values its closure captured
    aiKey,              \* process.env.API_KEY is set (geminiService.ts:168)
    stages,             \* history: stage invocations of the current run, in order
    requested,          \* history: domains for which a metrics request was issued
                        \* in the current run
    compared,           \* history: argument lists given to runBatchComparisonAgent
                        \* in the current run
    fetched,            \* history: results returned by runQueryAgent in the run
    submitted,          \* history: the task queue the current run started with
    runInput,           \* history: the text the current run was started with
    failure,            \* history: what moved the machine to ERROR ("none" if nothing)
    inherited,          \* history: the last start request found results, reports
                        \* or memory of an earlier run
    call,               \* one fetchCrUXData call: its arguments, None before it
    req,                \* its requests, per form factor and endpoint
    raw,                \* the promise of each form factor's fetchRawData
    result,             \* the promise fetchCrUXData returned
    late                \* the requests of earlier calls that are still out

wvars == <<domain, cruxKey, memory, agentState, logs, taskQueue, totalTasks,
           completedData, individualReports, isProcessing, effectPending, tasks,
           aiKey, stages, requested, compared, fetched, submitted, runInput,
           failure, inherited>>

fvars == <<call, req, raw, result, late>>

-----------------------------------------------------------------------------
(* Strings *)

\* String.prototype.startsWith
StartsWith(s, p) == Len(s) >= Len(p) /\ SubSeq(s, 1, Len(p)) = p

\* lower-casing of the letters the scheme test reads (the /i flag)
Lower(c) ==
    CASE c = "H" -> "h"
      [] c = "T" -> "t"
      [] c = "P" -> "p"
      [] c = "S" -> "s"
      [] OTHER -> c

LowerStr(s) == [i \in 1..Len(s) |-> Lower(s[i])]

RECURSIVE TrimLeft(_)
TrimLeft(s) == IF s # <<>> /\ Head(s) = " " THEN TrimLeft(Tail(s)) ELSE s

RECURSIVE TrimRight(_)
TrimRight(s) ==
    IF s # <<>> /\ s[Len(s)] = " " THEN TrimRight(SubSeq(s, 1, Len(s) - 1)) ELSE s

\* String.prototype.trim
Trim(s) == TrimRight(TrimLeft(s))

\* String.prototype.split(','): the pieces between the commas, in order
RECURSIVE SplitFrom(_, _, _)
SplitFrom(s, i, piece) ==
    IF i > Len(s) THEN <<piece>>
    ELSE IF s[i] = "," THEN <<piece>> \o SplitFrom(s, i + 1, <<>>)
    ELSE SplitFrom(s, i + 1, Append(piece, s[i]))

Split(s) == SplitFrom(s, 1, <<>>)

HttpPrefix == <<"h", "t", "t", "p", ":", "/", "/">>
HttpsPrefix == <<"h", "t", "t", "p", "s", ":", "/", "/">>

\* /^https?:\/\//i.test(clean)
HasScheme(clean) ==
    StartsWith(LowerStr(clean), HttpPrefix) \/ StartsWith(LowerStr(clean), HttpsPrefix)

-----------------------------------------------------------------------------
(* startAudit: from the text of the input field to the task queue *)

MAX_BATCH == 10

\* App.tsx:112-118  one comma-separated piece, trimmed and scheme-prefixed
CleanTarget(s) ==
    LET clean == Trim(s)
    IN  IF clean # <<>> /\ ~HasScheme(clean) THEN HttpsPrefix \o clean ELSE clean

\* every piece is kept
AnyPiece(s) == TRUE

\* App.tsx:118  filter(s => s)
NonEmpty(s) == s # <<>>

\* App.tsx:112-118  split(',').map(...).filter(s => s)
ParseTargets(targetInput) ==
    LET pieces == Split(targetInput)
    IN  SelectSeq([i \in 1..Len(pieces) |-> CleanTarget(pieces[i])], NonEmpty)

\* the batch is not limited
LimitBatchNever(targets) == targets

\* App.tsx:122-125  targets.splice(10)
LimitBatch(targets) ==
    IF Len(targets) > MAX_BATCH THEN SubSeq(targets, 1, MAX_BATCH) ELSE targets

-----------------------------------------------------------------------------
(* The metrics source: responses and their decoded bodies                  *)
(*                                                                         *)
(* Numbers are fixed-point, in hundredths (LCP 2500 ms is 250000, CLS 0.1  *)
(* is 10).  A raw JSON scalar is [t, v]: t = "num" a number, t = "str" a   *)
(* decimal string denoting v, t = "text" a string that denotes no number.  *)

Some(v) == <<v>>
None == <<>>

\* n units (ms, or CLS score) in hundredths
Units(n) == n * 100

RawNum(v) == [t |-> "num", v |-> v]
RawStr(v) == [t |-> "str", v |-> v]

\* a CrUXResponse body: {record: {metrics: {...}, collectionPeriod}} or {error}
SnapshotJson(err, rec) == [error |-> err, record |-> rec]
SnapshotRecord(metrics, cp) == [metrics |-> metrics, collectionPeriod |-> cp]
Metrics(lcp, cls, inp) ==
    [largest_contentful_paint |-> lcp, cumulative_layout_shift |-> cls,
     interaction_to_next_paint |-> inp]
Date(y, m, d) == [year |-> y, month |-> m, day |-> d]
Period(f, l) == [firstDate |-> f, lastDate |-> l]

\* a CrUXHistoryResponse body: {record: {metrics: {m: p75s}, collectionPeriods}}
HistoryJson(err, rec) == [error |-> err, record |-> rec]
HistoryRecord(metrics, cps) == [metrics |-> metrics, collectionPeriods |-> cps]

\* a fetch Response: its ok flag and what json() yields (decodes = FALSE: json()
\* rejects; json = None: the body is the JSON value null)
Response(ok, decodes, json) == [ok |-> ok, decodes |-> decodes, json |-> json]

FormFactors == {"PHONE", "DESKTOP"}

Err(name, dom, ff) == [name |-> name, domain |-> dom, formFactor |-> ff]

Resolved(v) == [state |-> "fulfilled", value |-> Some(v), reason |-> None]
Rejected(e) == [state |-> "rejected", value |-> None, reason |-> Some(e)]

-----------------------------------------------------------------------------
(* cruxService.ts: fetchWithRetry and fetchRawData                         *)
(*                                                                         *)
(* What the network does to one request is a sequence of attempts, each    *)
(* None (fetch rejects: a network-level failure) or Some(response).        *)

RETRIES == 1

NetworkError == Err("TypeError: Failed to fetch", None, None)

\* cruxService.ts:20-34
RECURSIVE fetchWithRetry(_, _)
fetchWithRetry(attempts, retries) ==
    IF Head(attempts) # None THEN Resolved(Head(attempts)[1])
    ELSE IF retries > 0 THEN fetchWithRetry(Tail(attempts), retries - 1)
    ELSE Rejected(NetworkError)

\* the number of fetch() calls fetchWithRetry makes on these attempts
RECURSIVE TriesOfRetry(_, _)
TriesOfRetry(attempts, retries) ==
    IF Head(attempts) # None \/ retries = 0 THEN 1
    ELSE 1 + TriesOfRetry(Tail(attempts), retries - 1)

\* cruxService.ts:51-52  cleanKey.startsWith('http')
isProxy(apiKeyOrProxy) == StartsWith(Trim(apiKeyOrProxy), <<"h", "t", "t", "p">>)

RawData(current, history) == [currentData |-> current, historyData |-> history]

\* cruxService.ts:110  !currentData?.record?.metrics
LacksMetrics(currentData) ==
    \/ currentData = None
    \/ currentData[1].record = None
    \/ currentData[1].record[1].metrics = None

\* cruxService.ts:110-112  the validation every transport ends with
Validate(dom, formFactor, currentData, historyData) ==
    IF LacksMetrics(currentData)
    THEN Rejected(Err("No metrics found for", Some(dom), Some(formFactor)))
    ELSE Resolved(RawData(currentData[1], historyData))

\* cruxService.ts:81-86  the catch of the proxy branch
ProxyCatch(e) ==
    IF e.name = "TypeError: Failed to fetch"
    THEN Rejected(Err("Connection Failed. Check Proxy URL and Permissions.", None, None))
    ELSE Rejected(e)

\* cruxService.ts:69  recordRes.json().catch(() => ({ error: "Invalid JSON" }))
RecordJson(recordRes) ==
    IF recordRes.decodes THEN recordRes.json
    ELSE Some(SnapshotJson(Some("Invalid JSON"), None))

\* cruxService.ts:74-79  the history of the proxy branch, once json() has resolved
ProxyHistory(historyJson) ==
    IF historyJson[1].error = None /\ historyJson[1].record # None
    THEN historyJson ELSE None

\* cruxService.ts:65-87, 110-112  the proxy branch after Promise.all has settled:
\* record and history are the settled fetchWithRetry promises
ProxyJoin(dom, formFactor, record, history) ==
    IF record.state = "rejected" THEN ProxyCatch(record.reason[1])
    ELSE IF history.state = "rejected" THEN ProxyCatch(history.reason[1])
    ELSE LET recordRes == record.value[1]
             historyRes == history.value[1]
             json == RecordJson(recordRes)
         IN  IF ~recordRes.ok THEN ProxyCatch(Err("Proxy HTTP", None, None))
             ELSE IF json = None
                  THEN ProxyCatch(Err("TypeError: null has no properties", None, None))
             ELSE IF json[1].error # None
                  THEN ProxyCatch(Err("Proxy Error", None, None))
             ELSE IF ~historyRes.ok THEN Validate(dom, formFactor, json, None)
             ELSE IF ~historyRes.decodes
                  THEN ProxyCatch(Err("SyntaxError: invalid JSON", None, None))
             ELSE IF historyRes.json = None
                  THEN ProxyCatch(Err("TypeError: null has no properties", None, None))
             ELSE Validate(dom, formFactor, json, ProxyHistory(historyRes.json))

\* cruxService.ts:91-98  the direct branch up to currentData; current is the
\* settled fetch of the snapshot
DirectCurrent(current) ==
    IF current.state = "rejected" THEN Rejected(current.reason[1])
    ELSE IF ~current.value[1].ok THEN Rejected(Err("CrUX API Error", None, None))
    ELSE IF ~current.value[1].decodes
         THEN Rejected(Err("SyntaxError: invalid JSON", None, None))
    ELSE Resolved(current.value[1].json)

\* cruxService.ts:100-107  the direct branch's history: every failure is caught
DirectHistory(history) ==
    IF history.state = "rejected" THEN None
    ELSE IF ~history.value[1].ok THEN None
    ELSE IF ~history.value[1].decodes THEN None
    ELSE history.value[1].json

\* one plain fetch(): no retry (cruxService.ts:91, 101)
PlainFetch(attempts) ==
    IF Head(attempts) # None THEN Resolved(Head(attempts)[1]) ELSE Rejected(NetworkError)

\* cruxService.ts:47-113  fetchRawData as a function of what the network answers:
\* net.record and net.history are the attempts of the two requests
fetchRawData(dom, apiKeyOrProxy, formFactor, net) ==
    IF isProxy(apiKeyOrProxy)
    THEN ProxyJoin(dom, formFactor, fetchWithRetry(net.record, RETRIES),
                   fetchWithRetry(net.history, RETRIES))
    ELSE LET current == DirectCurrent(PlainFetch(net.record))
         IN  IF current.state = "rejected" THEN current
             ELSE Validate(dom, formFactor, current.value[1],
                           DirectHistory(PlainFetch(net.history)))

-----------------------------------------------------------------------------
(* cruxService.ts: processRawData and fetchCrUXData *)

\* Number(x) is finite
IsFiniteRaw(x) == x.t \in {"num", "str"}

\* x || 0 on an optional p75
OrZero(p75) ==
    IF p75 = None THEN RawNum(0)
    ELSE IF p75[1].t = "num" /\ p75[1].v = 0 THEN RawNum(0)
    ELSE p75[1]

\* Number(x)
Number(x) == IF IsFiniteRaw(x) THEN RawNum(x.v) ELSE [t |-> "nan", v |-> 0]

\* the bound itself is excluded
Less(val, bound) == IsFiniteRaw(val) /\ val.v < bound

\* val <= bound, as the code's comparisons coerce val (NaN compares false)
Leq(val, bound) == IsFiniteRaw(val) /\ val.v <= bound

\* cruxService.ts:130-132
rateLCP(val) ==
    IF Leq(val, Units(2500)) THEN "good"
    ELSE IF Leq(val, Units(4000)) THEN "needs-improvement" ELSE "poor"
rateCLS(val) ==
    IF Leq(val, 10) THEN "good"
    ELSE IF Leq(val, 25) THEN "needs-improvement" ELSE "poor"
rateINP(val) ==
    IF Leq(val, Units(200)) THEN "good"
    ELSE IF Leq(val, Units(500)) THEN "needs-improvement" ELSE "poor"

IsFiniteEntry(x) == x # None /\ IsFiniteRaw(x[1])

\* without a series the trend is empty
getTrendNoFallback(historyMetric, currentMetric) ==
    IF historyMetric # None
    THEN LET kept == SelectSeq(historyMetric[1], IsFiniteEntry)
         IN  [i \in 1..Len(kept) |-> kept[i][1].v]
    ELSE <<>>

\* an entry that is no number counts as zero
getTrendZeroFilled(historyMetric, currentMetric) ==
    IF historyMetric # None
    THEN [i \in 1..Len(historyMetric[1]) |->
            IF IsFiniteEntry(historyMetric[1][i]) THEN historyMetric[1][i][1].v ELSE 0]
    ELSE <<Number(currentMetric).v>>

\* cruxService.ts:134-144  historyMetric is the optional p75s array of one metric;
\* the result is a sequence of numbers
getTrend(historyMetric, currentMetric) ==
    IF historyMetric # None
    THEN LET kept == SelectSeq(historyMetric[1], IsFiniteEntry)
         IN  [i \in 1..Len(kept) |-> kept[i][1].v]
    ELSE <<Number(currentMetric).v>>

\* the largest power of two that is at most n, for n >= 1
RECURSIVE Pow2Floor(_)
Pow2Floor(n) == IF n < 2 THEN 1 ELSE 2 * Pow2Floor(n \div 2)

\* the percentages k for which the double ((2k + 1) / 200) * 100 lies below
\* k + 0.5 (increases below 200%)
HalfBelow == {14, 28, 56, 57, 100, 101, 102, 103, 125, 126, 127}

\* cruxService.ts:157  Math.round(((end - start) / start) * 100) for end > start > 0,
\* in double arithmetic: the nearest integer, a half going up unless the
\* double falls below it
DegradedBy(start, end) ==
    LET nearest == (200 * (end - start) + start) \div (2 * start)
        half == (200 * (end - start) + start) % (2 * start) = 0
    IN  IF half /\ (nearest - 1) \in HalfBelow THEN nearest - 1 ELSE nearest

\* the double start * 1.15 lies below the exact product (start in whole
\* milliseconds): 1.15 is the double 1.15 - 0.4 * 2^-52, and the product is
\* rounded down when it falls more than half a unit in the last place short
RoundsBelow(start) ==
    LET ms == start \div 100
    IN  4 * ms > 5 * Pow2Floor((115 * ms) \div 100)

\* cruxService.ts:156  end > start * 1.15, in double arithmetic on whole
\* milliseconds
Exceeds(start, end) ==
    \/ 100 * end > 115 * start
    \/ 100 * end = 115 * start /\ RoundsBelow(start)

\* cruxService.ts:153-160
LcpRegression(lcpTrend) ==
    IF Len(lcpTrend) >= 4
       /\ lcpTrend[1] > 0
       /\ Exceeds(lcpTrend[1], lcpTrend[Len(lcpTrend)])
    THEN <<[text |-> "LCP degraded by %", value |-> DegradedBy(lcpTrend[1], lcpTrend[Len(lcpTrend)])]>>
    ELSE <<>>

\* cruxService.ts:162-164
PoorRegressions(lcp, cls, inp) ==
    (IF rateLCP(lcp) = "poor" THEN <<[text |-> "LCP is Poor (ms)", value |-> lcp.v]>> ELSE <<>>)
    \o (IF rateCLS(Number(cls)) = "poor" THEN <<[text |-> "CLS is Poor", value |-> cls.v]>> ELSE <<>>)
    \o (IF rateINP(inp) = "poor" THEN <<[text |-> "INP is Poor (ms)", value |-> inp.v]>> ELSE <<>>)

DigitChars == <<"0", "1", "2", "3", "4", "5", "6", "7", "8", "9">>

\* String(n) for n >= 0
RECURSIVE NumToString(_)
NumToString(n) ==
    IF n < 10 THEN <<DigitChars[n + 1]>> ELSE NumToString(n \div 10) \o <<DigitChars[(n % 10) + 1]>>

\* String.prototype.padStart(2, '0')
PadStart2(s) == IF Len(s) < 2 THEN <<"0">> \o s ELSE s

\* cruxService.ts:166
formatDate(d) ==
    NumToString(d.year) \o <<"-">> \o PadStart2(NumToString(d.month)) \o <<"-">>
        \o PadStart2(NumToString(d.day))

PeriodLabel(period) ==
    formatDate(period.firstDate) \o <<" ", "t", "o", " ">> \o formatDate(period.lastDate)

Unknown == <<"U", "n", "k", "n", "o", "w", "n">>

\* history?.record.metrics throws when a history object has no record
\* (cruxService.ts:121-122)
ProcessThrows(history) == history # None /\ history[1].record = None

HistoryMetric(history, name) ==
    IF history = None \/ history[1].record[1].metrics = None THEN None
    ELSE history[1].record[1].metrics[1][name]

\* cruxService.ts:119-187  for a validated current and a history it can read
processRawData(current, history) ==
    LET metrics == current.record[1].metrics[1]
        historyCollectionPeriods ==
            IF history = None THEN None ELSE history[1].record[1].collectionPeriods
        lcp == OrZero(metrics.largest_contentful_paint)
        cls == OrZero(metrics.cumulative_layout_shift)
        inp == OrZero(metrics.interaction_to_next_paint)
        lcpTrend == getTrend(HistoryMetric(history, "largest_contentful_paint"), lcp)
        clsTrend == getTrend(HistoryMetric(history, "cumulative_layout_shift"), cls)
        inpTrend == getTrend(HistoryMetric(history, "interaction_to_next_paint"), inp)
        cp == current.record[1].collectionPeriod
    IN  [metrics |->
            [lcp |-> [value |-> lcp, rating |-> rateLCP(lcp)],
             cls |-> [value |-> Number(cls), rating |-> rateCLS(Number(cls))],
             inp |-> [value |-> inp, rating |-> rateINP(inp)]],
         history |->
            [lcpTrend |-> lcpTrend, clsTrend |-> clsTrend, inpTrend |-> inpTrend,
             dates |-> IF historyCollectionPeriods = None THEN None
                       ELSE Some([i \in 1..Len(historyCollectionPeriods[1]) |->
                                    PeriodLabel(historyCollectionPeriods[1][i])])],
         regressions |-> LcpRegression(lcpTrend) \o PoorRegressions(lcp, cls, inp),
         collectionPeriod |-> IF cp = None THEN Unknown ELSE PeriodLabel(cp[1])]

AnalysisResult(dom, phone, desktop) == [domain |-> dom, phone |-> phone, desktop |-> desktop]

\* cruxService.ts:192-215  net.PHONE and net.DESKTOP are what the network answers
\* each form factor; first is the form factor whose fetchRawData settles first
\* (Promise.all rejects with the first rejection)
fetchCrUXData(dom, apiKeyOrProxy, net, first) ==
    IF apiKeyOrProxy = <<>> THEN Rejected(Err("API Key missing", None, None))
    ELSE LET phoneRaw == fetchRawData(dom, apiKeyOrProxy, "PHONE", net.PHONE)
             desktopRaw == fetchRawData(dom, apiKeyOrProxy, "DESKTOP", net.DESKTOP)
         IN  IF phoneRaw.state = "rejected" /\ desktopRaw.state = "rejected"
             THEN (IF first = "PHONE" THEN phoneRaw ELSE desktopRaw)
             ELSE IF phoneRaw.state = "rejected" THEN phoneRaw
             ELSE IF desktopRaw.state = "rejected" THEN desktopRaw
             ELSE IF ProcessThrows(phoneRaw.value[1].historyData)
                     \/ ProcessThrows(desktopRaw.value[1].historyData)
                  THEN Rejected(Err("TypeError: undefined has no properties", None, None))
             ELSE Resolved(AnalysisResult(dom,
                     processRawData(phoneRaw.value[1].currentData,
                                    phoneRaw.value[1].historyData),
                     processRawData(desktopRaw.value[1].currentData,
                                    desktopRaw.value[1].historyData)))

-----------------------------------------------------------------------------
(* geminiService.ts: the narrative tools                                   *)
(*                                                                         *)
(* A text is [head, lit, dom, nums]: a literal with the values embedded in *)
(* it.  What generateContent does is gen: None when it throws, Some(text)  *)
(* otherwise (a text whose lit is "" is an empty res.text).  Each tool is  *)
(* an async function: what it returns is a settled promise.                *)

Text(lit, dom, nums) == [head |-> "", lit |-> lit, dom |-> dom, nums |-> nums]
Literal(lit) == Text(lit, <<>>, <<>>)
EmptyText == Literal("")

\* what generateContent throws
GenerationError == Err("ApiError: generateContent failed", None, None)

\* the error of generateContent leaves the tool
Uncaught(e, placeholder) == Rejected(e)

\* geminiService.ts:210-212, 259-262, 315-317  the catch of a tool returns its
\* placeholder
Caught(e, placeholder) == Resolved(Literal(placeholder))

\* geminiService.ts:178-213
analyzeTrend(dom, analysis, ai, gen) ==
    IF ~ai THEN Resolved(Literal("Historian Analysis: Simulation Mode (No AI Key)"))
    ELSE IF gen = None
         THEN Caught(GenerationError, "Historian Agent failed to process data.")
    ELSE IF gen[1].lit = "" THEN Resolved(Literal("No historical anomalies detected."))
    ELSE Resolved(gen[1])

\* geminiService.ts:220-263
synthesizeReport(dom, analysis, historianNotes, ai, gen) ==
    IF ~ai THEN Resolved(Text("## Simulation Report", <<>>,
                              <<analysis.phone.metrics.lcp.value.v,
                                analysis.desktop.metrics.lcp.value.v>>))
    ELSE IF gen = None
         THEN Caught(GenerationError,
                     "Error generating recommendations. Please check your API Key.")
    ELSE IF gen[1].lit = "" THEN Resolved(Literal("No recommendations generated."))
    ELSE Resolved(gen[1])

\* geminiService.ts:269-318
compareBatchResults(results, ai, gen) ==
    IF ~ai THEN Resolved(Literal("## Comparative Analysis: unavailable in simulation mode"))
    ELSE IF gen = None THEN Caught(GenerationError, "Error generating comparison.")
    ELSE IF gen[1].lit = "" THEN Resolved(Literal("No comparison generated."))
    ELSE Resolved(gen[1])

\* historianAgent.ts:10-13, queryAgent.ts:10-13, interpreterAgent: plain delegation
runQueryAgent(dom, apiKeyOrProxy, net, first) == fetchCrUXData(dom, apiKeyOrProxy, net, first)
runHistorianAgent(dom, analysis, ai, gen) == analyzeTrend(dom, analysis, ai, gen)
runInterpreterAgent(dom, analysis, notes, ai, gen) ==
    synthesizeReport(dom, analysis, notes, ai, gen)
runBatchComparisonAgent(results, ai, gen) == compareBatchResults(results, ai, gen)

-----------------------------------------------------------------------------
(* App.tsx: state of the coordinator *)

Log(source, text, detail, dom, nums, type) ==
    [source |-> source,
     message |-> [text |-> text, detail |-> detail, dom |-> dom, nums |-> nums],
     type |-> type]

\* constants.ts:54-61
INITIAL_LOGS ==
    <<Log("Assistant", "System initialized. Waiting for target domain...", "", <<>>, <<>>, "info")>>

\* App.tsx:36-40
INITIAL_MEMORY ==
    [query |-> [lastDomain |-> <<>>, lastRawResults |-> None],
     historian |-> [lastTrend |-> None, lastHistoryData |-> None],
     interpreter |-> [lastAnalysis |-> None, lastRecommendations |-> EmptyText]]

\* only the idle state counts as inactive
isWorkflowActiveUnlessIdle(state) == state \notin {"IDLE"}

\* App.tsx:146
isWorkflowActive(state) == state \notin {"IDLE", "COMPLETE", "ERROR"}

\* a processTask invocation that has captured nothing
NoTask ==
    [pc |-> "none", currentTarget |-> <<>>, apiKey |-> <<>>, data |-> None,
     notes |-> None, queue |-> <<>>, completed |-> <<>>]

Stage(name, dom) == [stage |-> name, domain |-> dom]

Remove(seq, i) == SubSeq(seq, 1, i - 1) \o SubSeq(seq, i + 1, Len(seq))

-----------------------------------------------------------------------------
(* App.tsx: startAudit *)

\* a queue of state updates, applied in the order they were enqueued: a value
\* replaces the state, an updater function maps the previous state
SetTo(value) == [op |-> "set", value |-> value]
Appending(entry) == [op |-> "append", value |-> <<entry>>]

RECURSIVE ApplyUpdates(_, _)
ApplyUpdates(prev, updates) ==
    IF updates = <<>> THEN prev
    ELSE ApplyUpdates(IF Head(updates).op = "set" THEN Head(updates).value
                      ELSE prev \o Head(updates).value,
                      Tail(updates))

\* App.tsx:88-95  addLog enqueues the updater prev => [...prev, entry]
addLog(source, text, detail, dom, nums, type) ==
    Appending(Log(source, text, detail, dom, nums, type))

MissingConfigLog ==
    Log("Assistant", "MISSING CONFIGURATION: Please enter your CrUX API Key or Proxy URL.",
        "", <<>>, <<>>, "error")

TruncationLog ==
    Log("Assistant", "Batch size limited to 10. Processing the first 10 URLs.",
        "", <<>>, <<>>, "warning")

\* App.tsx:122-136  the updates startAudit enqueues on logs, in order
StartLogUpdates(targets) ==
    (IF Len(targets) > MAX_BATCH
     THEN <<Appending(TruncationLog)>>
     ELSE <<>>)
    \o <<SetTo(INITIAL_LOGS),
         addLog("Assistant", "Initializing Intelligence System. Queue:", "", <<>>,
                <<Len(LimitBatch(targets))>>, "info")>>

\* App.tsx:106  !cruxKey
MissingKey(key) == key = <<>>

\* a start without credential enters the Fetch stage
ConfigErrorIgnored == "QUERY"

\* App.tsx:108  the state a start without credential sets
ConfigErrorState == "ERROR"

\* App.tsx:401-415  the failure panel rendered in the ERROR state: "Missing
\* Configuration" while the credential field is empty, "Analysis Sequence
\* Failed" otherwise
FailureKindShown(state, key) ==
    IF state # "ERROR" THEN "none"
    ELSE IF MissingKey(key) THEN "configuration"
    ELSE "processing"

\* the entries of kind `entry` in a log
Count(log, entry) == Cardinality({i \in 1..Len(log) : log[i] = entry})

MaxConfigErrors == 2

\* the effect does not look at isProcessingRef
EffectFiresUnguarded(state, processing) == isWorkflowActive(state)

\* the effect runs after a commit that changed one of its dependencies; its
\* guard (App.tsx:146-149) returns at once unless the workflow is active and no
\* processTask is running
EffectFires(state, processing) == isWorkflowActive(state) /\ ~processing

\* the start keeps the accumulated results
KeepCompletedData(prev) == prev

\* App.tsx:130  setCompletedData([])
ResetCompletedData(prev) == <<>>

\* App.tsx:100-137  the start button and the preset buttons are enabled only
\* when the workflow is not active (App.tsx:306, 327)
StartAudit(targetInput) ==
  LET Leftover == \/ completedData # <<>>
                  \/ individualReports # <<>>
                  \/ memory # INITIAL_MEMORY
  IN
    /\ ~isWorkflowActive(agentState)
    /\ ~effectPending
    /\ IF targetInput = <<>>
       THEN UNCHANGED wvars
       ELSE /\ domain' = targetInput
            /\ UNCHANGED <<cruxKey, isProcessing, tasks, aiKey>>
            /\ IF MissingKey(cruxKey)
               THEN /\ Count(logs, MissingConfigLog) < MaxConfigErrors
                    /\ logs' = ApplyUpdates(logs, <<Appending(MissingConfigLog)>>)
                    /\ agentState' = ConfigErrorState
                    /\ effectPending' = EffectFires(agentState', isProcessing)
                    /\ stages' = <<>> /\ requested' = {} /\ compared' = <<>>
                    /\ fetched' = <<>> /\ submitted' = <<>> /\ runInput' = <<>>
                    /\ failure' = "configuration"
                    /\ inherited' = Leftover
                    /\ UNCHANGED <<memory, taskQueue, totalTasks, completedData,
                                   individualReports>>
               ELSE LET targets == ParseTargets(targetInput)
                    IN  IF Len(targets) = 0
                        THEN UNCHANGED <<memory, agentState, logs, taskQueue, totalTasks,
                                         completedData, individualReports, effectPending,
                                         stages, requested, compared, fetched, submitted,
                                         runInput, failure, inherited>>
                        ELSE /\ logs' = ApplyUpdates(logs, StartLogUpdates(targets))
                             /\ memory' = INITIAL_MEMORY
                             /\ completedData' = ResetCompletedData(completedData)
                             /\ individualReports' = <<>>
                             /\ totalTasks' = Len(LimitBatch(targets))
                             /\ taskQueue' = LimitBatch(targets)
                             /\ agentState' = "QUERY"
                             /\ effectPending' = EffectFires(agentState', isProcessing)
                             /\ stages' = <<>> /\ requested' = {} /\ compared' = <<>>
                             /\ fetched' = <<>> /\ submitted' = LimitBatch(targets)
                             /\ runInput' = targetInput
                             /\ failure' = "none"
                             /\ inherited' = Leftover

\* App.tsx:360  the credential field's onChange; cruxKey is a dependency of the
\* workflow effect (App.tsx:247)
EditKey(key) ==
    /\ ~effectPending
    /\ key # cruxKey
    /\ cruxKey' = key
    /\ effectPending' = EffectFires(agentState, isProcessing)
    /\ UNCHANGED <<domain, memory, agentState, logs, taskQueue, totalTasks,
                   completedData, individualReports, isProcessing, tasks, aiKey,
                   stages, requested, compared, fetched, submitted, runInput, failure, inherited>>

-----------------------------------------------------------------------------
(* App.tsx: the workflow effect and processTask *)

\* the index counts from zero
taskNumberFromZero(total, queue) == total - Len(queue)

\* App.tsx:177
taskNumber(total, queue) == total - Len(queue) + 1

\* the Fetch stage hands over to the Synthesize stage
NextStageSkips(state) ==
    CASE state = "QUERY" -> "INTERPRETER"
      [] state = "HISTORIAN" -> "INTERPRETER"
      [] state = "INTERPRETER" -> "QUERY"

\* App.tsx:190, 205, 234  the state a stage sets when it has succeeded
NextStage(state) ==
    CASE state = "QUERY" -> "HISTORIAN"
      [] state = "HISTORIAN" -> "INTERPRETER"
      [] state = "INTERPRETER" -> "QUERY"

\* the head is not dequeued
RemainingKeepsHead(queue) == queue

\* App.tsx:227  taskQueue.slice(1)
Remaining(queue) == Tail(queue)

\* a failed stage sends the machine back to the Fetch stage
FailureRestarts == "QUERY"

\* App.tsx:240  the state the catch of processTask sets
FailureState == "ERROR"

\* the new item replaces what was accumulated
RecordOnly(prev, item) == <<item>>

\* App.tsx:222-223  the updater prev => [...prev, item]
Record(prev, item) == Append(prev, item)

\* every run is taken for a batch
IsBatchAlways(total) == total > 0

\* App.tsx:158  totalTasks > 1
IsBatch(total) == total > 1

ProcessingLog(total, queue) ==
    addLog("Assistant", "[n/total] Processing", "", Head(queue),
           <<taskNumber(total, queue), total>>, "info")

\* App.tsx:238-243  catch and finally of processTask, reached without suspending
\* or after the await that threw
Catch(err, updates, rest) ==
    /\ logs' = ApplyUpdates(logs,
                  updates \o <<addLog("Assistant", "System Failure:", err.name, <<>>, <<>>,
                                      "error")>>)
    /\ agentState' = FailureState
    /\ isProcessing' = FALSE
    /\ tasks' = rest
    /\ failure' = "processing"
    /\ UNCHANGED inherited
    /\ effectPending' = EffectFires(agentState', isProcessing')

\* App.tsx:145-247  the effect passes its guard and processTask runs to its
\* first await (or to its end, when it awaits nothing)
RunEffect ==
    /\ effectPending
    /\ EffectFires(agentState, isProcessing)
    /\ UNCHANGED <<domain, cruxKey, taskQueue, totalTasks, completedData,
                   individualReports, aiKey, fetched, submitted, runInput>>
    /\ IF taskQueue = <<>>
       THEN \* App.tsx:155-174
            /\ UNCHANGED <<memory, stages, requested, failure, inherited>>
            /\ IF IsBatch(totalTasks)
               THEN /\ logs' = ApplyUpdates(logs,
                          <<addLog("Interpreter", "Finalizing batch comparison...", "",
                                   <<>>, <<>>, "info")>>)
                    /\ compared' = Append(compared, completedData)
                    /\ tasks' = Append(tasks, [NoTask EXCEPT !.pc = "compare",
                                                            !.completed = completedData])
                    /\ isProcessing' = TRUE
                    /\ effectPending' = FALSE
                    /\ UNCHANGED agentState
               ELSE /\ logs' = ApplyUpdates(logs,
                          <<addLog("Assistant", "Intelligence cycle complete.", "", <<>>,
                                   <<>>, "success")>>)
                    /\ agentState' = "COMPLETE"
                    /\ isProcessing' = FALSE
                    /\ effectPending' = FALSE
                    /\ UNCHANGED <<tasks, compared>>
       ELSE LET currentTarget == Head(taskQueue)
                processing == ProcessingLog(totalTasks, taskQueue)
                dispatch(agent) == addLog("Assistant", "Dispatching:", agent, <<>>, <<>>, "info")
            IN  /\ UNCHANGED compared
                /\ CASE agentState = "QUERY" ->
                        \* App.tsx:184-186
                        /\ logs' = ApplyUpdates(logs, <<processing, dispatch("Query Agent")>>)
                        /\ stages' = Append(stages, Stage("Fetch", currentTarget))
                        /\ requested' = IF cruxKey = <<>> THEN requested
                                        ELSE requested \cup {currentTarget}
                        /\ tasks' = Append(tasks, [NoTask EXCEPT !.pc = "query",
                                                      !.currentTarget = currentTarget,
                                                      !.apiKey = cruxKey])
                        /\ isProcessing' = TRUE
                        /\ effectPending' = FALSE
                        /\ UNCHANGED <<memory, agentState, failure, inherited>>
                     [] agentState = "HISTORIAN" ->
                        \* App.tsx:196-201
                        IF memory.query.lastRawResults = None
                        THEN /\ Catch(Err("Memory inconsistency: Query data not found for Historian.",
                                          None, None),
                                      <<processing, dispatch("Historian Agent")>>, tasks)
                             /\ UNCHANGED <<memory, stages, requested>>
                        ELSE /\ logs' = ApplyUpdates(logs,
                                   <<processing, dispatch("Historian Agent")>>)
                             /\ stages' = Append(stages, Stage("Narrate", currentTarget))
                             /\ tasks' = Append(tasks, [NoTask EXCEPT !.pc = "historian",
                                                   !.currentTarget = currentTarget,
                                                   !.data = memory.query.lastRawResults])
                             /\ isProcessing' = TRUE
                             /\ effectPending' = FALSE
                             /\ UNCHANGED <<memory, agentState, requested, failure, inherited>>
                     [] agentState = "INTERPRETER" ->
                        \* App.tsx:211-217
                        IF memory.query.lastRawResults = None \/ memory.historian.lastTrend = None
                        THEN /\ Catch(Err("Memory inconsistency: Data not found for Interpreter.",
                                          None, None),
                                      <<processing, dispatch("Interpreter Agent")>>, tasks)
                             /\ UNCHANGED <<memory, stages, requested>>
                        ELSE /\ logs' = ApplyUpdates(logs,
                                   <<processing, dispatch("Interpreter Agent")>>)
                             /\ stages' = Append(stages, Stage("Synthesize", currentTarget))
                             /\ tasks' = Append(tasks, [NoTask EXCEPT !.pc = "interpreter",
                                                   !.currentTarget = currentTarget,
                                                   !.data = memory.query.lastRawResults,
                                                   !.notes = memory.historian.lastTrend,
                                                   !.queue = taskQueue])
                             /\ isProcessing' = TRUE
                             /\ effectPending' = FALSE
                             /\ UNCHANGED <<memory, agentState, requested, failure, inherited>>
                     [] OTHER ->
                        \* App.tsx:180  the switch has no case for the other states
                        /\ logs' = ApplyUpdates(logs, <<processing>>)
                        /\ isProcessing' = FALSE
                        /\ effectPending' = FALSE
                        /\ UNCHANGED <<memory, agentState, stages, requested, failure, inherited,
                                       tasks>>

\* App.tsx:186-191, 238-243  processTask resumes from `await runQueryAgent`
\* with the settled promise analyzedData
QuerySettled(i, analyzedData) ==
    /\ tasks[i].pc = "query"
    /\ UNCHANGED <<domain, cruxKey, taskQueue, totalTasks, completedData,
                   individualReports, aiKey, stages, requested, compared, submitted, runInput>>
    /\ IF analyzedData.state = "rejected"
       THEN /\ Catch(analyzedData.reason[1], <<>>, Remove(tasks, i))
            /\ UNCHANGED <<memory, fetched>>
       ELSE /\ memory' = [memory EXCEPT !.query =
                            [lastDomain |-> tasks[i].currentTarget,
                             lastRawResults |-> analyzedData.value]]
            /\ logs' = ApplyUpdates(logs,
                  <<addLog("Query Agent", "Committed raw results to Session Memory.",
                           "", <<>>, <<>>, "success")>>)
            /\ agentState' = NextStage("QUERY")
            /\ isProcessing' = FALSE
            /\ tasks' = Remove(tasks, i)
            /\ fetched' = Append(fetched, analyzedData.value[1])
            /\ effectPending' = EffectFires(agentState', isProcessing')
            /\ UNCHANGED <<failure, inherited>>

\* App.tsx:186-191  runQueryAgent settles; net and first are what the network did
QueryDone(i, net, first) ==
    QuerySettled(i, runQueryAgent(tasks[i].currentTarget, tasks[i].apiKey, net, first))

\* App.tsx:201-206  runHistorianAgent returns
HistorianDone(i, gen) ==
    /\ tasks[i].pc = "historian"
    /\ UNCHANGED <<domain, cruxKey, taskQueue, totalTasks, completedData,
                   individualReports, aiKey, stages, requested, compared, fetched,
                   submitted, runInput>>
    /\ LET historianNotes == runHistorianAgent(tasks[i].currentTarget, tasks[i].data[1], aiKey, gen)
       IN  IF historianNotes.state = "rejected"
           THEN /\ Catch(historianNotes.reason[1], <<>>, Remove(tasks, i))
                /\ UNCHANGED memory
           ELSE /\ memory' = [memory EXCEPT !.historian =
                                 [lastTrend |-> historianNotes.value,
                                  lastHistoryData |-> None]]
                /\ logs' = ApplyUpdates(logs,
                      <<addLog("Historian", "Committed trend analysis to Session Memory.",
                               "", <<>>, <<>>, "success")>>)
                /\ agentState' = NextStage("HISTORIAN")
                /\ isProcessing' = FALSE
                /\ tasks' = Remove(tasks, i)
                /\ effectPending' = EffectFires(agentState', isProcessing')
                /\ UNCHANGED <<failure, inherited>>

\* App.tsx:217-236  runInterpreterAgent returns: the cycle's results are recorded
\* and the head is dequeued; with tasks left processTask suspends again for the
\* pause, otherwise it ends and the commit re-fires the effect on the empty queue
InterpreterDone(i, gen) ==
    /\ tasks[i].pc = "interpreter"
    /\ UNCHANGED <<domain, cruxKey, totalTasks, aiKey, stages, requested, compared,
                   fetched, submitted, runInput>>
    /\ LET dataForInterpreter == tasks[i].data[1]
           report == runInterpreterAgent(tasks[i].currentTarget, dataForInterpreter,
                                         tasks[i].notes, aiKey, gen)
           markdown == report.value[1]
           remainingTasks == Remaining(tasks[i].queue)
       IN  IF report.state = "rejected"
           THEN /\ Catch(report.reason[1], <<>>, Remove(tasks, i))
                /\ UNCHANGED <<memory, completedData, individualReports, taskQueue>>
           ELSE /\ memory' = [memory EXCEPT !.interpreter =
                                 [lastAnalysis |-> Some(dataForInterpreter),
                                  lastRecommendations |-> markdown]]
                /\ completedData' = Record(completedData, dataForInterpreter)
                /\ individualReports' = Record(individualReports, markdown)
                /\ logs' = ApplyUpdates(logs,
                      <<addLog("Assistant", "Cycle complete for", "", tasks[i].currentTarget,
                               <<>>, "success")>>)
                /\ taskQueue' = remainingTasks
                /\ IF Len(remainingTasks) > 0
                   THEN /\ tasks' = [tasks EXCEPT ![i] = [NoTask EXCEPT !.pc = "pause"]]
                        /\ UNCHANGED isProcessing
                   ELSE /\ tasks' = Remove(tasks, i)
                        /\ isProcessing' = FALSE
                /\ UNCHANGED <<failure, inherited, agentState>>
                /\ effectPending' = EffectFires(agentState', isProcessing')

\* App.tsx:233-234, 242  the pause between two cycles ends
PauseDone(i) ==
    /\ tasks[i].pc = "pause"
    /\ agentState' = NextStage("INTERPRETER")
    /\ isProcessing' = FALSE
    /\ tasks' = Remove(tasks, i)
    /\ effectPending' = EffectFires(agentState', isProcessing')
    /\ UNCHANGED <<domain, cruxKey, memory, logs, taskQueue, totalTasks, completedData,
                   individualReports, aiKey, stages, requested, compared, fetched,
                   submitted, runInput, failure, inherited>>

ComparativeConclusion(comparison) == [comparison EXCEPT !.head = "# Comparative Conclusion"]

\* App.tsx:159-173  runBatchComparisonAgent returns
CompareDone(i, gen) ==
    /\ tasks[i].pc = "compare"
    /\ UNCHANGED <<domain, cruxKey, taskQueue, totalTasks, completedData,
                   individualReports, aiKey, stages, requested, compared, fetched,
                   submitted, runInput, failure, inherited>>
    /\ LET comparison == runBatchComparisonAgent(tasks[i].completed, aiKey, gen)
           finalMarkdownOutput == ComparativeConclusion(comparison.value[1])
           last == IF tasks[i].completed = <<>> THEN None
                   ELSE Some(tasks[i].completed[Len(tasks[i].completed)])
       IN  IF comparison.state = "rejected"
           THEN \* App.tsx:155-174 is outside the try: the rejection ends
                \* processTask and nothing is set
                /\ tasks' = Remove(tasks, i)
                /\ UNCHANGED <<memory, logs, agentState, isProcessing, effectPending>>
           ELSE /\ memory' = [memory EXCEPT
                                 !.query.lastRawResults = last,
                                 !.interpreter.lastRecommendations = finalMarkdownOutput]
                /\ logs' = ApplyUpdates(logs,
                      <<addLog("Assistant", "Intelligence cycle complete.", "", <<>>, <<>>,
                               "success")>>)
                /\ agentState' = "COMPLETE"
                /\ isProcessing' = FALSE
                /\ tasks' = Remove(tasks, i)
                /\ effectPending' = EffectFires(agentState', isProcessing')

-----------------------------------------------------------------------------
(* One fetchCrUXData call, request by request                              *)
(*                                                                         *)
(* A request is [phase, tries, response]: unsent, inflight, backoff (the   *)
(* retry timer of fetchWithRetry runs), fulfilled or rejected.             *)

Pending == [state |-> "pending", value |-> None, reason |-> None]

Unsent == [phase |-> "unsent", tries |-> 0, response |-> None]
Sent(r) == [phase |-> "inflight", tries |-> r.tries + 1, response |-> None]

Endpoints == {"record", "history"}

\* the promise a request's fetch (with or without retry) returned
PromiseOf(r) ==
    IF r.phase = "fulfilled" THEN Resolved(r.response[1])
    ELSE IF r.phase = "rejected" THEN Rejected(NetworkError)
    ELSE Pending

\* the retries fetch has on this transport: fetchWithRetry on the proxy
\* (cruxService.ts:62-63), plain fetch on the direct API (cruxService.ts:91, 101)
RetriesOf(apiKeyOrProxy) == IF isProxy(apiKeyOrProxy) THEN RETRIES ELSE 0

\* cruxService.ts:20-34  a request after one attempt's outcome (None: fetch
\* rejected)
AfterAttempt(r, outcome, retries) ==
    IF outcome # None THEN [r EXCEPT !.phase = "fulfilled", !.response = outcome]
    ELSE IF r.tries <= retries THEN [r EXCEPT !.phase = "backoff"]
    ELSE [r EXCEPT !.phase = "rejected"]

\* cruxService.ts:65  Promise.all([recordPromise, historyPromise]) and what
\* follows it: pending until one request is rejected or both are fulfilled
ProxyRaw(dom, formFactor, requests) ==
    LET record == PromiseOf(requests.record)
        history == PromiseOf(requests.history)
    IN  IF record.state = "rejected" \/ history.state = "rejected"
           \/ (record.state = "fulfilled" /\ history.state = "fulfilled")
        THEN ProxyJoin(dom, formFactor, record, history)
        ELSE Pending

\* cruxService.ts:91-112  the direct branch: the history request is sent once
\* the snapshot has been read
DirectRaw(dom, formFactor, requests) ==
    LET current == DirectCurrent(PromiseOf(requests.record))
        history == PromiseOf(requests.history)
    IN  IF requests.record.phase \notin {"fulfilled", "rejected"} THEN Pending
        ELSE IF current.state = "rejected" THEN current
        ELSE IF history.state = "pending" THEN Pending
        ELSE Validate(dom, formFactor, current.value[1], DirectHistory(history))

RawOf(dom, apiKeyOrProxy, formFactor, requests) ==
    IF isProxy(apiKeyOrProxy) THEN ProxyRaw(dom, formFactor, requests)
    ELSE DirectRaw(dom, formFactor, requests)

\* the call settles with the form factor that settles first
ResultOfFirst(dom, raws, settledNow) ==
    IF raws[settledNow].state = "rejected" THEN raws[settledNow]
    ELSE IF ProcessThrows(raws[settledNow].value[1].historyData)
         THEN Rejected(Err("TypeError: undefined has no properties", None, None))
    ELSE Resolved(AnalysisResult(dom,
            processRawData(raws[settledNow].value[1].currentData,
                           raws[settledNow].value[1].historyData),
            processRawData(raws[settledNow].value[1].currentData,
                           raws[settledNow].value[1].historyData)))

\* cruxService.ts:197-214  Promise.all over the two form factors, then
\* processRawData; settledNow is the form factor that has just settled
ResultOf(dom, raws, settledNow) ==
    IF raws[settledNow].state = "rejected" THEN raws[settledNow]
    ELSE IF \E ff \in FormFactors : raws[ff].state = "rejected"
         THEN raws[CHOOSE ff \in FormFactors : raws[ff].state = "rejected"]
    ELSE IF \E ff \in FormFactors : raws[ff].state = "pending" THEN Pending
    ELSE IF \E ff \in FormFactors : ProcessThrows(raws[ff].value[1].historyData)
         THEN Rejected(Err("TypeError: undefined has no properties", None, None))
    ELSE Resolved(AnalysisResult(dom,
            processRawData(raws.PHONE.value[1].currentData, raws.PHONE.value[1].historyData),
            processRawData(raws.DESKTOP.value[1].currentData,
                           raws.DESKTOP.value[1].historyData)))

\* a request of a call nothing waits for any more: its transport and how
\* often it has been sent
Late(apiKeyOrProxy, formFactor, endpoint, tries) ==
    [apiKeyOrProxy |-> apiKeyOrProxy, formFactor |-> formFactor, endpoint |-> endpoint,
     tries |-> tries]

\* the requests a call still has out when the next call begins
Leftover ==
    IF call = None THEN {}
    ELSE {Late(call[1].apiKeyOrProxy, ff, endpoint, req[ff][endpoint].tries) :
             <<ff, endpoint>> \in {p \in FormFactors \X Endpoints :
                                     req[p[1]][p[2]].phase \in {"inflight", "backoff"}}}

\* cruxService.ts:192-200  a call of fetchCrUXData: without a key it throws at
\* once; otherwise both fetchRawData calls run to their first await.  Each call
\* has its own promises; the requests of the call before stay out
Begin(dom, apiKeyOrProxy) ==
    /\ call' = Some([domain |-> dom, apiKeyOrProxy |-> apiKeyOrProxy])
    /\ late' = late \cup Leftover
    /\ raw' = [ff \in FormFactors |-> Pending]
    /\ IF apiKeyOrProxy = <<>>
       THEN /\ result' = Rejected(Err("API Key missing", None, None))
            /\ req' = [ff \in FormFactors |-> [record |-> Unsent, history |-> Unsent]]
       ELSE /\ req' = [ff \in FormFactors |->
                        [record |-> Sent(Unsent),
                         history |-> IF isProxy(apiKeyOrProxy) THEN Sent(Unsent) ELSE Unsent]]
            /\ result' = Pending

\* the first call
FetchStart(dom, apiKeyOrProxy) ==
    /\ call = None
    /\ Begin(dom, apiKeyOrProxy)

\* a promise settles with the last outcome
SettleAgain(promise, outcome) == IF outcome.state = "pending" THEN promise ELSE outcome

\* cruxService.ts:197  a promise settles once: Promise.all rejects with the
\* first rejection and ignores what its promises do afterwards
SettleOnce(promise, outcome) == IF promise.state = "pending" THEN outcome ELSE promise

\* the promises after a request of formFactor changed to requests
Settle(formFactor, requests) ==
    LET dom == call[1].domain
        key == call[1].apiKeyOrProxy
        settled == RawOf(dom, key, formFactor, requests)
        \* cruxService.ts:100-101  the direct branch sends the history request
        \* when the snapshot has been accepted
        sendsHistory == /\ ~isProxy(key)
                        /\ requests.history.phase = "unsent"
                        /\ requests.record.phase = "fulfilled"
                        /\ DirectCurrent(PromiseOf(requests.record)).state = "fulfilled"
        next == IF sendsHistory THEN [requests EXCEPT !.history = Sent(Unsent)] ELSE requests
    IN  /\ req' = [req EXCEPT ![formFactor] = next]
        /\ IF raw[formFactor].state = "pending" /\ settled.state # "pending"
           THEN /\ raw' = [raw EXCEPT ![formFactor] = settled]
                /\ result' = SettleOnce(result, ResultOf(dom, raw', formFactor))
           ELSE UNCHANGED <<raw, result>>

\* one attempt of a request ends: the network fails it (None) or answers
Respond(formFactor, endpoint, outcome) ==
    /\ call # None
    /\ req[formFactor][endpoint].phase = "inflight"
    /\ Settle(formFactor,
              [req[formFactor] EXCEPT ![endpoint] =
                  AfterAttempt(@, outcome, RetriesOf(call[1].apiKeyOrProxy))])
    /\ UNCHANGED <<call, late>>

\* cruxService.ts:29-30  the backoff timer fires and the request is sent again
Retry(formFactor, endpoint) ==
    /\ call # None
    /\ req[formFactor][endpoint].phase = "backoff"
    /\ req' = [req EXCEPT ![formFactor][endpoint] = Sent(@)]
    /\ UNCHANGED <<call, raw, result, late>>

\* a request of an earlier call ends: its fetchRawData goes on as it would
\* have (a retry on the proxy, the history request after an accepted snapshot
\* on the direct API) and what it returns reaches nobody
LateRespond(request, outcome) ==
    /\ request \in late
    /\ LET key == request.apiKeyOrProxy
           again == outcome = None /\ request.tries <= RetriesOf(key)
           history == /\ outcome # None
                      /\ ~isProxy(key)
                      /\ request.endpoint = "record"
                      /\ DirectCurrent(Resolved(outcome[1])).state = "fulfilled"
       IN  late' = (late \ {request})
                     \cup (IF again THEN {[request EXCEPT !.tries = @ + 1]} ELSE {})
                     \cup (IF history
                           THEN {Late(key, request.formFactor, "history", 1)} ELSE {})
    /\ UNCHANGED <<call, req, raw, result>>

-----------------------------------------------------------------------------
(* The environment: what the user types and what the network answers *)

ApiKey == <<"A", "I", "z", "a">>
ProxyUrl == <<"h", "t", "t", "p", "s", ":", "/", "/", "g", "a", "s">>
Keys == {<<>>, ApiKey, ProxyUrl}

\* texts of the target field: one target; two, one with an upper-case scheme;
\* three around an empty piece; blank pieces only
Inputs ==
    { <<"a">>,
      <<" ", "b", ",", "H", "T", "T", "P", ":", "/", "/", "c">>,
      <<"a", ",", ",", "c", " ", ",", "b">>,
      <<" ", ",", " ">> }

Hosts == <<"a", "b", "c", "d", "e", "f", "g", "h", "i", "j", "k", "l", "m", "n">>

\* how far beyond the batch limit the long inputs go
Excess == 2

\* "a,b, ,c,...": the first n hosts, a blank piece after the second
RECURSIVE Csv(_)
Csv(n) ==
    IF n = 1 THEN <<Hosts[1]>>
    ELSE Csv(n - 1) \o (IF n = 3 THEN <<",", " ">> ELSE <<>>) \o <<",", Hosts[n]>>

\* a batch of two, and batches at and beyond the limit
LongInputs == {Csv(2)} \cup {Csv(MAX_BATCH + k) : k \in 0..Excess}

SomePeriod == Period(Date(2025, 5, 4), Date(2025, 5, 31))
NextPeriod == Period(Date(2025, 6, 1), Date(2025, 6, 28))

\* a snapshot with the three metrics (CLS as a decimal string) and its period
GoodSnapshot ==
    Response(TRUE, TRUE,
        Some(SnapshotJson(None,
            Some(SnapshotRecord(
                Some(Metrics(Some(RawNum(Units(3200))), Some(RawStr(15)),
                             Some(RawNum(Units(250))))),
                Some(SomePeriod))))))

\* a snapshot whose metrics object has none of the three metrics
BareSnapshot ==
    Response(TRUE, TRUE,
        Some(SnapshotJson(None, Some(SnapshotRecord(Some(Metrics(None, None, None)), None)))))

\* a snapshot whose record has no metrics object
NoMetricsSnapshot ==
    Response(TRUE, TRUE, Some(SnapshotJson(None, Some(SnapshotRecord(None, None)))))

\* a non-success status, with the error body the API sends
HttpError == Response(FALSE, TRUE, Some(SnapshotJson(Some("NOT_FOUND"), None)))

\* success status and an application-level error field
ErrorBody == Response(TRUE, TRUE, Some(SnapshotJson(Some("quota"), None)))

\* success status and a JSON object with neither error nor record
NoRecordBody == Response(TRUE, TRUE, Some(SnapshotJson(None, None)))

\* success status and a body json() cannot decode
Garbled == Response(TRUE, FALSE, None)

\* a history with a gap in each series
GoodHistory ==
    Response(TRUE, TRUE,
        Some(HistoryJson(None,
            Some(HistoryRecord(
                Some(Metrics(Some(<<Some(RawNum(Units(2800))), None, Some(RawNum(Units(3200)))>>),
                             Some(<<Some(RawStr(10)), None, Some(RawStr(15))>>),
                             Some(<<Some(RawNum(Units(200))), None, Some(RawNum(Units(250)))>>))),
                Some(<<SomePeriod, NextPeriod, NextPeriod>>))))))

\* JSON null with success status
NullBody == Response(TRUE, TRUE, None)

SnapshotAnswers ==
    {GoodSnapshot, BareSnapshot, NoMetricsSnapshot, HttpError, ErrorBody, Garbled}
HistoryAnswers == {GoodHistory, HttpError, ErrorBody, NoRecordBody, Garbled, NullBody}

Answers(endpoint) == IF endpoint = "record" THEN SnapshotAnswers ELSE HistoryAnswers

Origin == HttpsPrefix \o <<"a">>

Once(response) == <<Some(response), None>>
Down == <<None, None>>
Requests(record, history) == [record |-> record, history |-> history]
Net(phone, desktop) == [PHONE |-> phone, DESKTOP |-> desktop]

AllGood == Net(Requests(Once(GoodSnapshot), Once(GoodHistory)),
               Requests(Once(GoodSnapshot), Once(GoodHistory)))
PhoneHistoryDown == Net(Requests(Once(GoodSnapshot), Down),
                        Requests(Once(GoodSnapshot), Once(GoodHistory)))
DesktopSnapshotDown == Net(Requests(Once(GoodSnapshot), Once(GoodHistory)),
                           Requests(Down, Once(GoodHistory)))

Nets == {AllGood, PhoneHistoryDown, DesktopSnapshotDown}
SteadyNets == {AllGood, DesktopSnapshotDown}

\* what the model may generate for a prompt of `tool` about `dom`
Generated(tool, dom) == Text(tool, dom, <<>>)
Gens(tool, dom) == {None, Some(EmptyText), Some(Generated(tool, dom))}
SteadyGens(tool, dom) == {Some(Generated(tool, dom))}

-----------------------------------------------------------------------------
(* Specifications *)

vars == <<wvars, fvars>>

NoCall ==
    /\ call = None
    /\ req = [ff \in FormFactors |-> [record |-> Unsent, history |-> Unsent]]
    /\ raw = [ff \in FormFactors |-> Pending]
    /\ result = Pending
    /\ late = {}

Idle ==
    /\ domain = <<>>
    /\ memory = INITIAL_MEMORY
    /\ agentState = "IDLE"
    /\ logs = INITIAL_LOGS
    /\ taskQueue = <<>>
    /\ totalTasks = 0
    /\ completedData = <<>>
    /\ individualReports = <<>>
    /\ isProcessing = FALSE
    /\ effectPending = FALSE
    /\ tasks = <<>>
    /\ stages = <<>>
    /\ requested = {}
    /\ compared = <<>>
    /\ fetched = <<>>
    /\ submitted = <<>>
    /\ runInput = <<>>
    /\ failure = "none"
    /\ inherited = FALSE

Init ==
    /\ Idle
    /\ cruxKey \in Keys
    /\ aiKey \in BOOLEAN
    /\ NoCall

Next ==
    \/ \E targetInput \in Inputs : StartAudit(targetInput) /\ UNCHANGED fvars
    \/ \E key \in Keys : EditKey(key) /\ UNCHANGED fvars
    \/ RunEffect /\ UNCHANGED fvars
    \/ \E i \in DOMAIN tasks, net \in Nets, first \in FormFactors :
            QueryDone(i, net, first) /\ UNCHANGED fvars
    \/ \E i \in DOMAIN tasks : \E gen \in Gens("notes", tasks[i].currentTarget) :
            HistorianDone(i, gen) /\ UNCHANGED fvars
    \/ \E i \in DOMAIN tasks : \E gen \in Gens("report", tasks[i].currentTarget) :
            InterpreterDone(i, gen) /\ UNCHANGED fvars
    \/ \E i \in DOMAIN tasks : PauseDone(i) /\ UNCHANGED fvars
    \/ \E i \in DOMAIN tasks : \E gen \in Gens("comparison", <<>>) :
            CompareDone(i, gen) /\ UNCHANGED fvars

Spec == Init /\ [][Next]_vars

\* what the program does by itself: the effect React runs after a commit, and
\* the continuation of processTask when the promise it awaits settles
Workflow ==
    \/ RunEffect /\ UNCHANGED fvars
    \/ \E i \in DOMAIN tasks, net \in Nets, first \in FormFactors :
            QueryDone(i, net, first) /\ UNCHANGED fvars
    \/ \E i \in DOMAIN tasks : \E gen \in Gens("notes", tasks[i].currentTarget) :
            HistorianDone(i, gen) /\ UNCHANGED fvars
    \/ \E i \in DOMAIN tasks : \E gen \in Gens("report", tasks[i].currentTarget) :
            InterpreterDone(i, gen) /\ UNCHANGED fvars
    \/ \E i \in DOMAIN tasks : PauseDone(i) /\ UNCHANGED fvars
    \/ \E i \in DOMAIN tasks : \E gen \in Gens("comparison", <<>>) :
            CompareDone(i, gen) /\ UNCHANGED fvars

\* every external call returns or throws, every timer fires and React runs
\* the effects it has scheduled
LiveInputs == {<<"a", ",", "b">>}

NextLive ==
    \/ \E targetInput \in LiveInputs : StartAudit(targetInput) /\ UNCHANGED fvars
    \/ \E key \in Keys : EditKey(key) /\ UNCHANGED fvars
    \/ Workflow

SpecLive == Init /\ [][NextLive]_vars /\ WF_vars(Workflow)

\* long batches under a steady environment
NextLong ==
    \/ \E targetInput \in LongInputs : StartAudit(targetInput) /\ UNCHANGED fvars
    \/ \E key \in Keys : EditKey(key) /\ UNCHANGED fvars
    \/ RunEffect /\ UNCHANGED fvars
    \/ \E i \in DOMAIN tasks, net \in SteadyNets, first \in FormFactors :
            QueryDone(i, net, first) /\ UNCHANGED fvars
    \/ \E i \in DOMAIN tasks : \E gen \in SteadyGens("notes", tasks[i].currentTarget) :
            HistorianDone(i, gen) /\ UNCHANGED fvars
    \/ \E i \in DOMAIN tasks : \E gen \in SteadyGens("report", tasks[i].currentTarget) :
            InterpreterDone(i, gen) /\ UNCHANGED fvars
    \/ \E i \in DOMAIN tasks : PauseDone(i) /\ UNCHANGED fvars
    \/ \E i \in DOMAIN tasks : \E gen \in SteadyGens("comparison", <<>>) :
            CompareDone(i, gen) /\ UNCHANGED fvars

SpecLong == Init /\ [][NextLong]_vars

\* one call of the aggregator, under every answer of the metrics source
InitFetch ==
    /\ Idle
    /\ cruxKey = <<>>
    /\ aiKey = FALSE
    /\ NoCall

NextFetch ==
    \/ \E key \in Keys : FetchStart(Origin, key) /\ UNCHANGED wvars
    \/ \E ff \in FormFactors, endpoint \in Endpoints :
            \E outcome \in {None} \cup {Some(a) : a \in Answers(endpoint)} :
                Respond(ff, endpoint, outcome) /\ UNCHANGED wvars
    \/ \E ff \in FormFactors, endpoint \in Endpoints : Retry(ff, endpoint) /\ UNCHANGED wvars

SpecFetch == InitFetch /\ [][NextFetch]_vars

\* batches of one and two domains over the metrics source request by request:
\* the credentials, the target texts and the answers of one attempt
RunKeys == {ApiKey, ProxyUrl}
RunInputs == {<<"a", ",", "b">>}
RunOutcomes(endpoint) ==
    IF endpoint = "record" THEN {None, Some(GoodSnapshot), Some(HttpError)}
    ELSE {Some(GoodHistory)}

\* App.tsx:184-187  the effect runs; when it dispatches the Query Agent,
\* runQueryAgent calls fetchCrUXData for the head of the queue
RunEffectAndFetch ==
    /\ RunEffect
    /\ IF agentState = "QUERY" /\ taskQueue # <<>>
       THEN Begin(Head(taskQueue), cruxKey)
       ELSE UNCHANGED fvars

\* App.tsx:187  a response to a request of the call; processTask resumes in
\* the same turn when the response settles the promise it awaits
RespondAndResume(formFactor, endpoint, outcome) ==
    /\ Respond(formFactor, endpoint, outcome)
    /\ IF result.state = "pending" /\ result'.state # "pending"
       THEN \E i \in DOMAIN tasks : QuerySettled(i, result')
       ELSE UNCHANGED wvars

InitRun ==
    /\ Idle
    /\ cruxKey \in RunKeys
    /\ aiKey = FALSE
    /\ NoCall

NextRun ==
    \/ \E targetInput \in RunInputs : StartAudit(targetInput) /\ UNCHANGED fvars
    \/ RunEffectAndFetch
    \/ \E ff \in FormFactors, endpoint \in Endpoints :
            \E outcome \in RunOutcomes(endpoint) : RespondAndResume(ff, endpoint, outcome)
    \/ \E ff \in FormFactors, endpoint \in Endpoints : Retry(ff, endpoint) /\ UNCHANGED wvars
    \/ \E request \in late : \E outcome \in RunOutcomes(request.endpoint) :
            LateRespond(request, outcome) /\ UNCHANGED wvars
    \/ \E i \in DOMAIN tasks : \E gen \in SteadyGens("notes", tasks[i].currentTarget) :
            HistorianDone(i, gen) /\ UNCHANGED fvars
    \/ \E i \in DOMAIN tasks : \E gen \in SteadyGens("report", tasks[i].currentTarget) :
            InterpreterDone(i, gen) /\ UNCHANGED fvars
    \/ \E i \in DOMAIN tasks : PauseDone(i) /\ UNCHANGED fvars
    \/ \E i \in DOMAIN tasks : \E gen \in SteadyGens("comparison", <<>>) :
            CompareDone(i, gen) /\ UNCHANGED fvars

SpecRun == InitRun /\ [][NextRun]_vars

\* the phone's snapshot and history ranging over the values processRawData
\* distinguishes, the desktop's fixed
Ms(n) == Some(RawNum(Units(n)))
Score(hundredths) == Some(RawStr(hundredths))
Null == None
NotANumber == Some([t |-> "text", v |-> 0])

SnapshotOf(lcp, cls, inp) ==
    Response(TRUE, TRUE,
        Some(SnapshotJson(None,
            Some(SnapshotRecord(Some(Metrics(lcp, cls, inp)), Some(SomePeriod))))))

\* p75 values on and next to the thresholds
LcpValues == {Ms(2500), Ms(2501), Ms(4000), Ms(4001)}
ClsValues == {Score(10), Score(11), Score(25), Score(26)}
InpValues == {Ms(200), Ms(201), Ms(500), Ms(501)}

ExtractSnapshots ==
    {SnapshotOf(lcp, cls, inp) : lcp \in LcpValues, cls \in ClsValues, inp \in InpValues}
        \cup {SnapshotOf(None, Score(0), Ms(0))}

\* one collection period per entry of a series
Periods(n) == [i \in 1..n |-> Period(Date(2025, i, 1), Date(2025, i, 28))]

HistoryOf(lcp, cls, inp) ==
    Response(TRUE, TRUE,
        Some(HistoryJson(None,
            Some(HistoryRecord(Some(Metrics(Some(lcp), Some(cls), Some(inp))),
                               Some(Periods(Len(lcp))))))))

\* LCP series: just above and at the 15% boundary, three points only, a first
\* point of zero, gaps between valid entries, no valid entry
LcpSeries ==
    { <<Ms(1000), Ms(1000), Ms(1000), Ms(1151)>>,
      <<Ms(1000), Ms(1000), Ms(1000), Ms(1150)>>,
      <<Ms(1700), Ms(1700), Ms(1700), Ms(1955)>>,
      <<Ms(200), Ms(200), Ms(200), Ms(257)>>,
      <<Ms(1000), Ms(1000), Ms(2000)>>,
      <<Ms(0), Ms(0), Ms(0), Ms(100)>>,
      <<Ms(1000), Null, Ms(1200), NotANumber, Ms(1100), Ms(2000)>>,
      <<Null, Null, Null, Null>> }

\* CLS and INP series of the same length as lcp, rising steeply, the CLS one
\* with a gap
ClsLike(lcp) ==
    [i \in 1..Len(lcp) |-> IF i = 2 THEN Null ELSE IF i = Len(lcp) THEN Score(50) ELSE Score(10)]
InpLike(lcp) == [i \in 1..Len(lcp) |-> IF i = Len(lcp) THEN Ms(400) ELSE Ms(100)]

ExtractHistories ==
    {HistoryOf(lcp, ClsLike(lcp), InpLike(lcp)) : lcp \in LcpSeries} \cup {HttpError}

ExtractAnswers(formFactor, endpoint) ==
    IF formFactor = "DESKTOP"
    THEN (IF endpoint = "record" THEN {GoodSnapshot} ELSE {GoodHistory})
    ELSE (IF endpoint = "record" THEN ExtractSnapshots ELSE ExtractHistories)

NextExtract ==
    \/ \E key \in RunKeys : FetchStart(Origin, key) /\ UNCHANGED wvars
    \/ \E ff \in FormFactors, endpoint \in Endpoints :
            \E answer \in ExtractAnswers(ff, endpoint) :
                Respond(ff, endpoint, Some(answer)) /\ UNCHANGED wvars

SpecExtract == InitFetch /\ [][NextExtract]_vars

-----------------------------------------------------------------------------
(* Properties of the workflow *)

StageNames == <<"Fetch", "Narrate", "Synthesize">>

\* the k-th stage invocation of a run over the targets, when every domain goes
\* through its three stages before the next begins
ExpectedStage(targets, k) == Stage(StageNames[((k - 1) % 3) + 1], targets[((k - 1) \div 3) + 1])

\* the processTask invocations suspended in a stage
InStage == {i \in DOMAIN tasks : tasks[i].pc \in {"query", "historian", "interpreter"}}

\* C1: domains are processed strictly in the submitted order, each through
\* Fetch, Narrate, Synthesize in that order; no stage of a domain starts before
\* Synthesize of the previous domain has completed and been recorded; at most
\* one stage invocation is in flight at any time.
InOrderNoOverlap ==
    /\ Len(stages) <= 3 * Len(submitted)
    /\ \A k \in DOMAIN stages : stages[k] = ExpectedStage(submitted, k)
    /\ \A k \in DOMAIN stages :
          /\ Len(completedData) >= (k - 1) \div 3
          /\ Len(individualReports) >= (k - 1) \div 3
    /\ Cardinality(InStage) <= 1
    /\ Len(tasks) <= 1
    /\ InStage # {} => stages # <<>> /\ Len(completedData) = (Len(stages) - 1) \div 3

\* the second domain of a batch is in its Synthesize stage
SecondDomainInSynthesize ==
    /\ Len(submitted) >= 2
    /\ Len(stages) = 6
    /\ InStage # {}
    /\ stages[6] = Stage("Synthesize", submitted[2])
    /\ submitted[1] # submitted[2]

BatchRecordedInOrder ==
    agentState = "COMPLETE" /\ Len(submitted) >= 2 =>
        /\ Len(completedData) = Len(submitted)
        /\ Len(fetched) = Len(submitted)
        /\ \A i \in DOMAIN submitted :
              /\ completedData[i] = fetched[i]
              /\ completedData[i].domain = submitted[i]
        /\ compared = <<completedData>>

\* a batch of ten has completed
TenCompleted ==
    /\ agentState = "COMPLETE"
    /\ Len(submitted) = 10
    /\ Len(completedData) = 10
    /\ compared # <<>>

\* C4: the batch comparison is invoked exactly once if and only if more than
\* one domain was processed, and only when the queue is drained and every
\* domain's report is recorded, before the machine enters Complete; in a run
\* of one domain it is never invoked and the final report is that domain's
\* synthesized report.
ComparisonOnceForBatches ==
    /\ Len(compared) <= 1
    /\ compared # <<>> =>
          /\ Len(submitted) > 1
          /\ taskQueue = <<>>
          /\ Len(individualReports) = Len(submitted)
          /\ Len(completedData) = Len(submitted)
    /\ agentState = "COMPLETE" =>
          /\ tasks = <<>>
          /\ Len(compared) = 1 <=> Len(submitted) > 1
          /\ Len(submitted) = 1 =>
                memory.interpreter.lastRecommendations = individualReports[1]

\* a batch of three has completed with its comparison made
ThreeCompared ==
    /\ agentState = "COMPLETE"
    /\ Len(submitted) = 3
    /\ Len(compared) = 1
    /\ Len(individualReports) = 3

FirstN(seq, n) == SubSeq(seq, 1, IF Len(seq) > n THEN n ELSE Len(seq))

\* the domains the run has touched: queued, staged, requested or recorded
Touched ==
    {taskQueue[k] : k \in DOMAIN taskQueue}
        \cup {stages[k].domain : k \in DOMAIN stages}
        \cup requested
        \cup {completedData[k].domain : k \in DOMAIN completedData}

\* C6: the task queue never holds more than 10 entries; when more than 10
\* targets are submitted the queue starts as exactly the first 10 non-empty
\* entries in their order, each trimmed and scheme-prefixed, the run proceeds
\* rather than failing, and the entries from the 11th on are never processed.
QueueHoldsFirstTen ==
    /\ Len(taskQueue) <= 10
    /\ runInput # <<>> =>
          LET all == ParseTargets(runInput)
          IN  /\ submitted = FirstN(all, 10)
              /\ \A k \in DOMAIN submitted :
                    /\ submitted[k] # <<>>
                    /\ Trim(submitted[k]) = submitted[k]
                    /\ HasScheme(submitted[k])
              /\ Len(all) > 10 =>
                    /\ totalTasks = 10
                    /\ agentState # "IDLE"
                    /\ agentState = "ERROR" => stages # <<>>
                    /\ \A k \in 11..Len(all) : all[k] \notin Touched

\* a run started with twelve targets has completed with ten results
TwelveSubmittedTenDone ==
    /\ Len(ParseTargets(runInput)) = 12
    /\ agentState = "COMPLETE"
    /\ Len(completedData) = 10
    /\ Len(stages) = 30

\* C7: when more than 10 targets are submitted, a warning that the batch was
\* truncated is present in the log of the run.
TruncationWarned ==
    runInput # <<>> /\ Len(ParseTargets(runInput)) > 10 =>
        \E k \in DOMAIN logs : logs[k].type = "warning"

-----------------------------------------------------------------------------
(* Properties of the fetch aggregator *)

\* the snapshot request of a form factor was answered with a usable snapshot
SnapshotGood(ff) ==
    /\ req[ff].record.phase = "fulfilled"
    /\ req[ff].record.response = Some(GoodSnapshot)

\* the history request of a form factor failed: at the network level, with a
\* non-success status, or with a body that cannot be decoded
HistoryFailed(ff) ==
    \/ req[ff].history.phase = "rejected"
    \/ /\ req[ff].history.phase = "fulfilled"
       /\ \/ ~req[ff].history.response[1].ok
          \/ ~req[ff].history.response[1].decodes

\* the history request returned a success status and a decodable body that
\* carries an error field or has no record
HistoryUnusable(ff) ==
    /\ req[ff].history.phase = "fulfilled"
    /\ req[ff].history.response[1].ok
    /\ req[ff].history.response[1].decodes
    /\ req[ff].history.response[1].json # None
    /\ \/ req[ff].history.response[1].json[1].error # None
       \/ req[ff].history.response[1].json[1].record = None

\* the snapshot request returned a success status and a body without error
\* in which none of the three tracked metrics is present
SnapshotWithoutMetrics(ff) ==
    /\ req[ff].record.phase = "fulfilled"
    /\ LET res == req[ff].record.response[1]
       IN  /\ res.ok /\ res.decodes /\ res.json # None
           /\ res.json[1].error = None
           /\ \/ res.json[1].record = None
              \/ res.json[1].record[1].metrics = None
              \/ LET m == res.json[1].record[1].metrics[1]
                 IN  /\ m.largest_contentful_paint = None
                     /\ m.cumulative_layout_shift = None
                     /\ m.interaction_to_next_paint = None

\* C8: a history request that fails (network failure, non-success status or
\* undecodable body) never makes the Fetch fail, on either transport: the
\* form factor is fetched with no history.
HistoryFailureTolerated ==
    \A ff \in FormFactors :
        HistoryFailed(ff) /\ SnapshotGood(ff) =>
            /\ raw[ff].state # "rejected"
            /\ raw[ff].state = "fulfilled" => raw[ff].value[1].historyData = None

\* C9: a history response with a success status that carries an error field
\* or lacks the record is treated as no history, on either transport.
UnusableHistoryIsNull ==
    \A ff \in FormFactors :
        HistoryUnusable(ff) /\ SnapshotGood(ff) =>
            /\ raw[ff].state # "rejected"
            /\ raw[ff].state = "fulfilled" => raw[ff].value[1].historyData = None
            /\ result.state = "rejected" =>
                  \E other \in FormFactors \ {ff} : raw[other].state = "rejected"

\* C10: a snapshot in which none of the three tracked metrics is present (the
\* metrics object missing, or present without any of them) makes the form
\* factor's fetch fail; no analysis is built from it.
NoMetricsNoAnalysis ==
    \A ff \in FormFactors :
        SnapshotWithoutMetrics(ff) =>
            /\ raw[ff].state # "fulfilled"
            /\ result.state # "fulfilled"

\* the snapshot request was answered with a non-success status, or with a
\* success status and a body carrying an error field
SnapshotFailed(ff) ==
    /\ req[ff].record.phase = "fulfilled"
    /\ LET res == req[ff].record.response[1]
       IN  \/ ~res.ok
           \/ res.ok /\ res.decodes /\ res.json # None /\ res.json[1].error # None

\* C11: a failed snapshot request of either form factor (non-success status
\* or an error field in the body) aborts the whole AnalysisResult, no partial
\* result is returned, and the error raised identifies the domain and the
\* form factor.
SnapshotFailureIdentified ==
    \A ff \in FormFactors :
        SnapshotFailed(ff) =>
            /\ result.state # "fulfilled"
            /\ raw[ff].state # "fulfilled"
            /\ raw[ff].state = "rejected" /\ ~HistoryFailed(ff) =>
                  /\ raw[ff].reason[1].domain = Some(call[1].domain)
                  /\ raw[ff].reason[1].formFactor = Some(ff)

-----------------------------------------------------------------------------
(* Properties of the workflow, continued *)

\* every narrative text the run has recorded is a non-empty string
TextsPresent ==
    /\ memory.historian.lastTrend # None => memory.historian.lastTrend[1].lit # ""
    /\ \A k \in DOMAIN individualReports : individualReports[k].lit # ""
    /\ agentState = "COMPLETE" => memory.interpreter.lastRecommendations.lit # ""

\* every failure of a stage so far is a failure of a Fetch stage
OnlyFetchFails ==
    failure = "processing" => stages # <<>> /\ stages[Len(stages)].stage = "Fetch"

\* a step out of Narrating goes to Synthesizing, and no step of a narrative
\* stage goes to the failed state
NarrativeMovesOn ==
    /\ (agentState = "HISTORIAN" /\ agentState' # "HISTORIAN") => agentState' = "INTERPRETER"
    /\ agentState \in {"HISTORIAN", "INTERPRETER"} => agentState' # "ERROR"

\* C12: narrative generation never aborts a run: with the generation
\* capability unavailable or a generation call failing, the Narrator, the
\* Synthesizer and the batch comparator return a placeholder text, Narrating
\* always moves on to Synthesizing, and the machine never fails in a
\* narrative stage.
GenerationNeverAborts ==
    /\ [](TextsPresent /\ OnlyFetchFails)
    /\ [][NarrativeMovesOn]_vars

\* a generation call of the Narrator failed and Synthesizing goes on with the
\* placeholder
NarratorFailedRunGoesOn ==
    /\ aiKey
    /\ agentState = "INTERPRETER"
    /\ memory.historian.lastTrend = Some(Literal("Historian Agent failed to process data."))
    /\ \E i \in DOMAIN tasks : tasks[i].pc = "interpreter"

\* a start request is made
StartRequest == \E targetInput \in Inputs \cup LongInputs : StartAudit(targetInput)

\* the step invokes no stage, issues no call and leaves the workflow state,
\* the queue, the accumulated results and the session memory as they are
NothingRuns ==
    UNCHANGED <<agentState, taskQueue, totalTasks, completedData, individualReports,
                memory, stages, requested, compared, tasks, isProcessing, effectPending>>

\* C13: Complete and Failed are terminal until a new run is started: in these
\* states no stage is invoked, no external call is issued, and the workflow
\* state, queue, accumulated results and session memory do not change until
\* the next start request, whatever re-fires the workflow effect.
TerminalUntilStart ==
    [][(agentState = "COMPLETE" \/ agentState = "ERROR") =>
          (StartRequest \/ NothingRuns)]_vars

\* the credential was edited after a run failed in the middle of a batch
KeyEditedAfterFailure ==
    /\ agentState = "ERROR"
    /\ failure = "processing"
    /\ taskQueue # <<>>
    /\ completedData # <<>>
    /\ cruxKey = <<>>

\* the transition relation of the workflow state, on one step
Transition ==
    \/ agentState' = agentState
    \/ /\ agentState \in {"IDLE", "COMPLETE", "ERROR"}
       /\ StartRequest
       /\ \/ agentState' = "QUERY" /\ cruxKey # <<>>
          \/ agentState' = "ERROR" /\ cruxKey = <<>>
    \/ agentState = "QUERY" /\ agentState' \in {"HISTORIAN", "ERROR"}
    \/ agentState = "HISTORIAN" /\ agentState' \in {"INTERPRETER", "ERROR"}
    \/ /\ agentState = "INTERPRETER"
       /\ \/ /\ agentState' = "QUERY"
             /\ taskQueue' # <<>>
             /\ Len(taskQueue') + Len(completedData') = Len(submitted')
          \/ agentState' = "COMPLETE" /\ taskQueue' = <<>>
          \/ agentState' = "ERROR"

\* C14: every change of the workflow state follows the transition relation:
\* a start request moves Idle, Complete or Failed to Fetching (to Failed on a
\* missing credential); Fetching goes only to Narrating or Failed; Narrating
\* only to Synthesizing or Failed; Synthesizing to Fetching only with a
\* non-empty queue after the pop, to Complete only with an empty queue, or to
\* Failed.
FollowsTransitionRelation == [][Transition]_vars

\* the machine is back in Fetching for the second domain of a batch
LoopedBackToFetching ==
    /\ agentState = "QUERY"
    /\ Len(completedData) = 1
    /\ taskQueue # <<>>
    /\ Len(stages) = 3

-----------------------------------------------------------------------------
(* Properties of the fetch aggregator, continued *)

\* a request of the call has been sent at least once
Initiated(ff, endpoint) == req[ff][endpoint].phase # "unsent"

\* a request of the call is with the network, or waits for its retry
InFlight(ff, endpoint) == req[ff][endpoint].phase \in {"inflight", "backoff"}

RetriedOnceBeforeFailing ==
    \A ff \in FormFactors, endpoint \in Endpoints :
        /\ req[ff][endpoint].tries <= 2
        /\ req[ff][endpoint].phase = "rejected" => req[ff][endpoint].tries = 2

-----------------------------------------------------------------------------
(* Properties of the failure display *)

\* C19: in every Failed state the failure kind shown (missing configuration
\* or failure during processing) is the kind of the error that moved the
\* machine to Failed, also after later edits of the credential field.
ShownKindIsCause ==
    agentState = "ERROR" => FailureKindShown(agentState, cruxKey) = failure

-----------------------------------------------------------------------------
(* Properties of a new run *)

\* a result returned by the Fetch stage in the current run
FromThisRun(data) == \E i \in DOMAIN fetched : fetched[i] = data

\* what the current run holds was produced by the current run
OnlyThisRun ==
    runInput # <<>> =>
        /\ totalTasks = Len(submitted)
        /\ Len(taskQueue) + Len(completedData) <= Len(submitted)
        /\ Len(completedData) <= Len(fetched)
        /\ \A i \in DOMAIN completedData :
              /\ completedData[i] = fetched[i]
              /\ completedData[i].domain = submitted[i]
        /\ Len(individualReports) = Len(completedData)
        /\ \A k \in DOMAIN compared :
              /\ Len(compared[k]) = Len(submitted)
              /\ \A j \in DOMAIN compared[k] : compared[k][j] = fetched[j]
        /\ memory.query.lastRawResults # None =>
              FromThisRun(memory.query.lastRawResults[1])
        /\ memory.interpreter.lastAnalysis # None =>
              FromThisRun(memory.interpreter.lastAnalysis[1])
        /\ memory.query.lastDomain # <<>> =>
              \E i \in DOMAIN submitted : submitted[i] = memory.query.lastDomain

\* a start request that is accepted leaves nothing of the earlier run
AcceptedStartClears ==
    (~isWorkflowActive(agentState) /\ agentState' = "QUERY") =>
        /\ taskQueue' = submitted'
        /\ totalTasks' = Len(taskQueue')
        /\ completedData' = <<>>
        /\ individualReports' = <<>>
        /\ memory' = INITIAL_MEMORY

\* C20: a start with valid targets and credential clears the queue, the
\* accumulated results, the per-domain reports, the memory and the total
\* before the first Fetch, so the accumulated list, the comparison input and
\* the final report of the new run hold nothing of an earlier run.
NewRunStartsClean == []OnlyThisRun /\ [][AcceptedStartClears]_vars

\* a run that started over the results of an earlier run has recorded a
\* result of its own
RecordedAfterEarlierRun ==
    /\ inherited
    /\ runInput # <<>>
    /\ Len(completedData) = 1
    /\ Len(fetched) = 1

-----------------------------------------------------------------------------
(* Properties of the Fetch stage within a run *)

\* a request of the current Fetch stage is still out
StageRequestInFlight ==
    call # None /\ \E ff \in FormFactors, endpoint \in Endpoints : InFlight(ff, endpoint)

LeavesFetchingJoined ==
    (agentState = "QUERY" /\ agentState' # "QUERY") => ~StageRequestInFlight'

EntersNarratingJoined ==
    (agentState = "QUERY" /\ agentState' = "HISTORIAN") => ~StageRequestInFlight'

\* C16: the four requests of a Fetch stage are joined before the stage
\* completes: the machine never leaves Fetching, to Narrating or to Failed,
\* while a request of that stage is still in flight.
JoinedBeforeLeaving == [][LeavesFetchingJoined]_vars

\* C16, on the code: the machine never goes from Fetching to Narrating while
\* a request of that stage is still in flight; it may go to Failed as soon as
\* one request's failure rejects the stage, the others still in flight.
JoinedBeforeNarrating == [][EntersNarratingJoined]_vars

\* the first domain's Fetch stage has completed with its four requests
\* answered and the machine is in Narrating
FetchJoinedNarrating ==
    /\ agentState = "HISTORIAN"
    /\ Len(fetched) = 1
    /\ result.state = "fulfilled"
    /\ \A ff \in FormFactors, endpoint \in Endpoints :
          req[ff][endpoint].phase = "fulfilled"

\* a response to a request of a call that has settled, or of an earlier call
LateStep ==
    \/ \E request \in late : \E outcome \in RunOutcomes(request.endpoint) :
            LateRespond(request, outcome)
    \/ /\ call # None
       /\ result.state # "pending"
       /\ \E ff \in FormFactors, endpoint \in Endpoints :
             \/ Retry(ff, endpoint)
             \/ \E outcome \in RunOutcomes(endpoint) : Respond(ff, endpoint, outcome)

\* what the workflow holds, and the promise it awaited, stay as they are
Discarded ==
    /\ UNCHANGED <<memory, taskQueue, totalTasks, completedData, individualReports,
                   agentState, logs, tasks, isProcessing, effectPending>>
    /\ UNCHANGED result

\* C17: the requests still in flight when a run fails may complete later and
\* their results are discarded: a late response of a failed or superseded
\* call changes neither the memory, the queue, the accumulated results nor
\* the workflow state, also during a run started afterwards.
LateResponsesDiscarded == [][LateStep => Discarded]_vars

\* a new run has fetched its first domain while a request of the failed
\* run's Fetch stage is still out
NewRunOverLateRequest ==
    /\ late # {}
    /\ agentState = "HISTORIAN"
    /\ Len(fetched) = 1
    /\ Len(stages) = 1

-----------------------------------------------------------------------------
(* Properties of the start request *)

\* a text with nothing but blanks and commas: no piece of it is a domain
Blank(targetInput) == \A i \in DOMAIN targetInput : targetInput[i] \in {" ", ","}

\* a start request with a text that yields no domain
BlankStart == \E targetInput \in Inputs : Blank(targetInput) /\ StartAudit(targetInput)

NoRunStarted ==
    UNCHANGED <<agentState, taskQueue, totalTasks, completedData, individualReports,
                memory, logs, tasks>>

\* C21: a start request whose text yields no non-empty domain starts no run
\* and leaves the workflow state, the queue, the accumulated results and the
\* memory unchanged, whatever the credential is.
BlankStartChangesNothing == [][BlankStart => NoRunStarted]_vars

\* C21, on the code: with a credential such a start request changes nothing;
\* without a credential it is refused as a missing configuration (the
\* machine goes to Failed) unless the text is empty.
BlankStartWithKeyChangesNothing == [][(BlankStart /\ cruxKey # <<>>) => NoRunStarted]_vars

\* a completed run is still shown after a start request with a blank text
BlankStartAfterComplete ==
    /\ agentState = "COMPLETE"
    /\ completedData # <<>>
    /\ cruxKey # <<>>
    /\ Blank(domain)

-----------------------------------------------------------------------------
(* Properties of the metric extraction *)

\* fetchCrUXData has returned an analysis
Processed == result.state = "fulfilled"

\* the FormFactorAnalysis of a form factor, and what processRawData was given
Analysis(ff) == IF ff = "PHONE" THEN result.value[1].phone ELSE result.value[1].desktop
CurrentMetrics(ff) == raw[ff].value[1].currentData.record[1].metrics[1]
GivenHistory(ff) == raw[ff].value[1].historyData

MetricNames ==
    {"largest_contentful_paint", "cumulative_layout_shift", "interaction_to_next_paint"}

\* the three p75 values are there and denote numbers
AllPresent(ff) ==
    \A name \in MetricNames :
        CurrentMetrics(ff)[name] # None /\ CurrentMetrics(ff)[name][1].t \in {"num", "str"}

\* the threshold table, on hundredths
Rating(value, good, fair) ==
    IF value <= good THEN "good" ELSE IF value <= fair THEN "needs-improvement" ELSE "poor"

\* C22: for every snapshot with the three metrics present each rating is the
\* one of the threshold table (LCP 2500/4000 ms, CLS 0.10/0.25, INP 200/500
\* ms), the bounds included, a CLS given as a decimal string rated by its
\* numeric value.
RatingsMatchTable ==
    Processed =>
        \A ff \in FormFactors :
            AllPresent(ff) =>
                /\ Analysis(ff).metrics.lcp.rating =
                      Rating(CurrentMetrics(ff).largest_contentful_paint[1].v, 250000, 400000)
                /\ Analysis(ff).metrics.cls.rating =
                      Rating(CurrentMetrics(ff).cumulative_layout_shift[1].v, 10, 25)
                /\ Analysis(ff).metrics.inp.rating =
                      Rating(CurrentMetrics(ff).interaction_to_next_paint[1].v, 20000, 50000)

\* a phone snapshot on the bounds has been rated: LCP 2500 ms, CLS "0.25",
\* INP 500 ms
RatedOnTheBounds ==
    /\ Processed
    /\ CurrentMetrics("PHONE") = Metrics(Ms(2500), Score(25), Ms(500))
    /\ Analysis("PHONE").metrics.lcp.rating = "good"
    /\ Analysis("PHONE").metrics.cls.rating = "needs-improvement"
    /\ Analysis("PHONE").metrics.inp.rating = "needs-improvement"

\* the entries of a series that are numbers, in their order
RECURSIVE ValidEntries(_)
ValidEntries(series) ==
    IF series = <<>> THEN <<>>
    ELSE (IF Head(series) # None /\ Head(series)[1].t \in {"num", "str"}
          THEN <<Head(series)[1].v>> ELSE <<>>) \o ValidEntries(Tail(series))

\* the series of a metric in the history processRawData was given, if any
Series(ff, name) == HistoryMetric(GivenHistory(ff), name)

\* C23: the trend of a history series with null or non-finite entries among
\* the valid ones is the subsequence of the valid entries, as numbers and in
\* their order: nothing substituted, reordered or duplicated.
TrendIsValidEntries ==
    Processed =>
        \A ff \in FormFactors :
            /\ Series(ff, "largest_contentful_paint") # None =>
                  Analysis(ff).history.lcpTrend =
                      ValidEntries(Series(ff, "largest_contentful_paint")[1])
            /\ Series(ff, "cumulative_layout_shift") # None =>
                  Analysis(ff).history.clsTrend =
                      ValidEntries(Series(ff, "cumulative_layout_shift")[1])
            /\ Series(ff, "interaction_to_next_paint") # None =>
                  Analysis(ff).history.inpTrend =
                      ValidEntries(Series(ff, "interaction_to_next_paint")[1])

\* a series of six entries with a null and a non-number among them has
\* given a trend of four
GapsDropped ==
    /\ Processed
    /\ Series("PHONE", "largest_contentful_paint") # None
    /\ Len(Series("PHONE", "largest_contentful_paint")[1]) = 6
    /\ Analysis("PHONE").history.lcpTrend = <<100000, 120000, 110000, 200000>>

\* the degradation entries among the regressions of a form factor
Degradations(ff) ==
    SelectSeq(Analysis(ff).regressions, LAMBDA r : r.text = "LCP degraded by %")

\* the last point of a trend exceeds the first by more than 15%
Above15(trend) ==
    /\ Len(trend) >= 4
    /\ trend[1] > 0
    /\ 100 * trend[Len(trend)] > 115 * trend[1]

\* (last - first) / first in percent, rounded to the nearest integer
RoundedPercent(trend) ==
    (200 * (trend[Len(trend)] - trend[1]) + trend[1]) \div (2 * trend[1])

\* C24: the LCP degradation entry is there if and only if the LCP trend has
\* at least 4 points, a positive first point and a last point more than 15%
\* above the first; it reports the increase in percent rounded to the nearest
\* integer; no other entry reports a degradation.
RegressionIffAbove15 ==
    Processed =>
        \A ff \in FormFactors :
            LET trend == Analysis(ff).history.lcpTrend
            IN  /\ Len(Degradations(ff)) = (IF Above15(trend) THEN 1 ELSE 0)
                /\ Above15(trend) => Degradations(ff)[1].value = RoundedPercent(trend)

Trends(ff) ==
    <<Analysis(ff).history.lcpTrend, Analysis(ff).history.clsTrend,
      Analysis(ff).history.inpTrend>>

\* C25: whenever date labels are present they are aligned with the trends:
\* label i is the collection window of entry i of every trend, so each trend
\* is as long as the list of labels, also when null entries were dropped.
DatesAlignedWithTrends ==
    Processed =>
        \A ff \in FormFactors :
            Analysis(ff).history.dates # None =>
                \A i \in 1..3 : Len(Trends(ff)[i]) = Len(Analysis(ff).history.dates[1])

\* the current value of a metric, zero when the snapshot has none
CurrentValue(ff, name) ==
    IF CurrentMetrics(ff)[name] = None THEN 0 ELSE CurrentMetrics(ff)[name][1].v

CurrentValues(ff) ==
    <<CurrentValue(ff, "largest_contentful_paint"), CurrentValue(ff, "cumulative_layout_shift"),
      CurrentValue(ff, "interaction_to_next_paint")>>

NoHistorySingleValue(ff) ==
    GivenHistory(ff) = None =>
        \A i \in 1..3 : Trends(ff)[i] = <<CurrentValues(ff)[i]>>

\* C26: with no history for a form factor each trend is the single current
\* value of its metric, and a trend is never empty when a snapshot was
\* accepted.
TrendNeverEmpty ==
    Processed =>
        \A ff \in FormFactors :
            /\ NoHistorySingleValue(ff)
            /\ \A i \in 1..3 : Trends(ff)[i] # <<>>

\* C26, on the code: with no history each trend is the single current value;
\* a trend is empty only when the history has a series for the metric and
\* no entry of the series is a number.
TrendEmptyOnlyWithoutValidEntry ==
    Processed =>
        \A ff \in FormFactors :
            /\ NoHistorySingleValue(ff)
            /\ Analysis(ff).history.lcpTrend = <<>> =>
                  /\ Series(ff, "largest_contentful_paint") # None
                  /\ ValidEntries(Series(ff, "largest_contentful_paint")[1]) = <<>>
            /\ Analysis(ff).history.clsTrend = <<>> =>
                  /\ Series(ff, "cumulative_layout_shift") # None
                  /\ ValidEntries(Series(ff, "cumulative_layout_shift")[1]) = <<>>
            /\ Analysis(ff).history.inpTrend = <<>> =>
                  /\ Series(ff, "interaction_to_next_paint") # None
                  /\ ValidEntries(Series(ff, "interaction_to_next_paint")[1]) = <<>>

\* the phone's history request failed and its trends are the current values
\* LCP 4001 ms, CLS 0.26, INP 501 ms
TrendsFromCurrentValues ==
    /\ Processed
    /\ GivenHistory("PHONE") = None
    /\ Trends("PHONE") = << <<400100>>, <<26>>, <<50100>> >>

-----------------------------------------------------------------------------
(* Properties of the re-entrancy guard *)

\* C27: at most one stage invocation is in flight at any time: when the
\* effect re-fires on a state change while a stage awaits I/O or the pause,
\* the guard keeps a second stage from starting, and no stage is invoked
\* twice for the same domain in one run.
OneStageAtATime ==
    /\ Len(tasks) <= 1
    /\ \A i, j \in DOMAIN stages : i # j => stages[i] # stages[j]

\* the credential was edited while the Fetch stage of the second domain was
\* awaiting the metrics source
KeyEditedDuringFetch ==
    /\ Len(tasks) = 1
    /\ tasks[1].pc = "query"
    /\ tasks[1].apiKey # cruxKey
    /\ Len(completedData) = 1
    /\ isProcessing

-----------------------------------------------------------------------------
(* Properties of the session memory *)

MemoryErrors ==
    {"Memory inconsistency: Query data not found for Historian.",
     "Memory inconsistency: Data not found for Interpreter."}

\* the stage a suspended invocation runs was given the analysis fetched for
\* the queue head in this cycle
GivenHeadAnalysis(task) ==
    /\ taskQueue # <<>>
    /\ task.currentTarget = Head(taskQueue)
    /\ fetched # <<>>
    /\ task.data = Some(fetched[Len(fetched)])
    /\ task.data[1].domain = task.currentTarget
    /\ memory.query.lastDomain = task.currentTarget
    /\ memory.query.lastRawResults = task.data

\* C28: the memory is consistent with the queue head at every stage start:
\* Narrating for d is given the analysis fetched for d in the same cycle,
\* Synthesizing for d is given d's analysis and d's narrator output, never
\* those of a domain processed before; the 'Memory inconsistency' errors
\* never occur.
MemoryMatchesHead ==
    /\ \A i \in DOMAIN tasks :
          /\ tasks[i].pc = "historian" => GivenHeadAnalysis(tasks[i])
          /\ tasks[i].pc = "interpreter" =>
                /\ GivenHeadAnalysis(tasks[i])
                /\ tasks[i].notes # None
                /\ tasks[i].notes = memory.historian.lastTrend
                /\ tasks[i].notes[1].dom \in {<<>>, tasks[i].currentTarget}
                /\ Len(stages) >= 3
                /\ stages[Len(stages) - 1] = Stage("Narrate", tasks[i].currentTarget)
                /\ stages[Len(stages) - 2] = Stage("Fetch", tasks[i].currentTarget)
    /\ \A k \in DOMAIN logs : logs[k].message.detail \notin MemoryErrors

\* Synthesizing has started for the second domain while the memory still
\* holds the report data of the first
SecondSynthesisOverFirstReport ==
    /\ Len(tasks) = 1
    /\ tasks[1].pc = "interpreter"
    /\ memory.interpreter.lastAnalysis # None
    /\ memory.interpreter.lastAnalysis[1].domain # tasks[1].currentTarget
    /\ tasks[1].notes[1].dom = tasks[1].currentTarget

-----------------------------------------------------------------------------
(* Properties of the batch bookkeeping *)

\* the progress entries of the log
IsProgress(entry) == entry.message.text = "[n/total] Processing"

\* C29: at every stage boundary of a run the accumulated results and the
\* queue add up to the total of the run, the report list is as long as the
\* result list with entry i of both for the same domain, and every progress
\* index logged (total - queue length + 1) lies in 1..total.
BookkeepingAddsUp ==
    runInput # <<>> =>
        /\ Len(completedData) + Len(taskQueue) = totalTasks
        /\ Len(individualReports) = Len(completedData)
        /\ \A i \in DOMAIN completedData :
              /\ completedData[i].domain = submitted[i]
              /\ individualReports[i].dom \in {<<>>, completedData[i].domain}
        /\ \A k \in DOMAIN logs :
              IsProgress(logs[k]) =>
                  /\ logs[k].message.nums[2] = totalTasks
                  /\ logs[k].message.nums[1] \in 1..totalTasks

\* the third domain of a batch of three is being fetched: two results, one
\* domain queued, progress 3 of 3 logged
ThirdOfThreeInProgress ==
    /\ agentState = "QUERY"
    /\ totalTasks = 3
    /\ Len(completedData) = 2
    /\ Len(taskQueue) = 1
    /\ \E k \in DOMAIN logs : IsProgress(logs[k]) /\ logs[k].message.nums = <<3, 3>>

-----------------------------------------------------------------------------
(* Termination *)

\* C30: a run started with a target and a credential reaches Complete or
\* Failed, provided every external call returns or throws: each completed
\* Synthesize shortens the queue, and an active machine always has a stage in
\* flight or an effect scheduled.
Stranded == isWorkflowActive(agentState) /\ tasks = <<>> /\ ~effectPending

SynthesizeCompleted == Len(individualReports') > Len(individualReports)

QueueShrinks == SynthesizeCompleted => Len(taskQueue') < Len(taskQueue)

Terminal == agentState \in {"COMPLETE", "ERROR"}

RunTerminates ==
    /\ isWorkflowActive(agentState) ~> Terminal
    /\ []~Stranded
    /\ [][QueueShrinks]_vars

\* a batch of two has run to Complete
BatchOfTwoComplete ==
    /\ agentState = "COMPLETE"
    /\ totalTasks = 2
    /\ Len(individualReports) = 2
    /\ tasks = <<>>
    /\ ~effectPending

=============================================================================
